---------------------------- MODULE Spec2Model ----------------------------
(***************************************************************************)
(* WebDAV-Explorer: the dock widget (webdav_dock_widget.py) and the        *)
(* connection dialog (webdav_connection_dialog.py) as a state machine.     *)
(*                                                                         *)
(* Text (str) is a sequence of one-character strings, so that strip,       *)
(* rstrip, startswith, "in", replace and split are computed as Python      *)
(* computes them.  One action is one handler run to completion on the UI   *)
(* thread; `ev` records what the handler that ran last did (the requests   *)
(* it sent with the answers it got, the modal boxes it showed, whether an  *)
(* exception left it).  A transfer that calls QApplication.processEvents() *)
(* in its loop is two actions, up to the call and from it on.              *)
(***************************************************************************)
EXTENDS Naturals, Sequences, FiniteSets, TLC

VARIABLES
    settings,            \* QSettings, group WebDAVGenericExplorer/connections
    connections,         \* self.connections: name -> profile dict
    connection_combo,    \* self.connection_combo: the items, in order
    current_connection,  \* self.current_connection: name of the aliased dict, or NoConnection
    session,             \* self.session
    current_mode,        \* self.current_mode
    current_path,        \* self.current_path
    current_items,       \* self.current_items (an attribute that may not exist)
    navigation_history,  \* self.navigation_history (an attribute that may not exist)
    current_path_before_navigation, \* attribute created by navigate_to_path
    status_label,        \* self.status_label text
    connection_status,   \* self.connection_status text
    buttons,             \* enabled flags of back_btn, up_btn, refresh_btn
    dlg,                 \* the modal WebDAVConnectionDialog: "closed" or "open"
    file_handlers,       \* self.file_handlers: the extension table
    probe,               \* input and result of the function applied to a text or a name
    transfers,           \* the transfers that stand at QApplication.processEvents(), the last inmost
    ev                   \* what the last handler did

vars == <<settings, connections, connection_combo, current_connection, session,
          current_mode, current_path, current_items, navigation_history,
          current_path_before_navigation, status_label, connection_status,
          buttons, dlg, file_handlers, probe, transfers, ev>>

-----------------------------------------------------------------------------
(* Text: Python str operations *)

startswith(s, p) == Len(p) <= Len(s) /\ SubSeq(s, 1, Len(p)) = p

endswith(s, p) == Len(p) <= Len(s) /\ SubSeq(s, Len(s) - Len(p) + 1, Len(s)) = p

\* sub in s
contains(s, sub) ==
    \E i \in 1..(Len(s) - Len(sub) + 1) : SubSeq(s, i, i + Len(sub) - 1) = sub

RECURSIVE lstrip(_, _)
lstrip(s, c) == IF s # <<>> /\ Head(s) = c THEN lstrip(Tail(s), c) ELSE s

RECURSIVE rstrip(_, _)
rstrip(s, c) ==
    IF s # <<>> /\ s[Len(s)] = c THEN rstrip(SubSeq(s, 1, Len(s) - 1), c) ELSE s

\* s.strip(): white space is the blank, the only white space the inputs hold
strip(s) == rstrip(lstrip(s, " "), " ")

\* the positions at which sub occurs in s
occurrences(s, sub) ==
    {i \in 1..Len(s) : i + Len(sub) - 1 <= Len(s) /\ SubSeq(s, i, i + Len(sub) - 1) = sub}

least(S) == CHOOSE x \in S : \A y \in S : x <= y

greatest(S) == CHOOSE x \in S : \A y \in S : y <= x

\* s.find(sub) when sub is in s, counted from 1
find(s, sub) == least(occurrences(s, sub))

\* s.replace(old, new), old not empty: the occurrences from the left, none
\* overlapping another
RECURSIVE replace(_, _, _)
replace(s, old, new) ==
    IF ~contains(s, old) THEN s
    ELSE SubSeq(s, 1, find(s, old) - 1) \o new
         \o replace(SubSeq(s, find(s, old) + Len(old), Len(s)), old, new)

\* s.split(sep): the list of the pieces, sep not empty
RECURSIVE splitFrom(_, _, _)
splitFrom(s, sep, piece) ==
    IF ~contains(s, sep) THEN <<piece \o s>>
    ELSE <<piece \o SubSeq(s, 1, find(s, sep) - 1)>>
         \o splitFrom(SubSeq(s, find(s, sep) + Len(sep), Len(s)), sep, <<>>)

split(s, sep) == splitFrom(s, sep, <<>>)

\* sep.join(parts)
RECURSIVE join(_, _)
join(parts, sep) ==
    IF parts = <<>> THEN <<>>
    ELSE IF Len(parts) = 1 THEN parts[1]
    ELSE parts[1] \o sep \o join(Tail(parts), sep)

\* the lower-case letter of each upper-case letter
LowerCase ==
    [A |-> "a", B |-> "b", C |-> "c", D |-> "d", E |-> "e", F |-> "f", G |-> "g",
     H |-> "h", I |-> "i", J |-> "j", K |-> "k", L |-> "l", M |-> "m", N |-> "n",
     O |-> "o", P |-> "p", Q |-> "q", R |-> "r", S |-> "s", T |-> "t", U |-> "u",
     V |-> "v", W |-> "w", X |-> "x", Y |-> "y", Z |-> "z"]

LowerChar(c) == IF c \in DOMAIN LowerCase THEN LowerCase[c] ELSE c

\* s.lower()
lower(s) == [i \in 1..Len(s) |-> LowerChar(s[i])]

SeqToSet(s) == {s[i] : i \in 1..Len(s)}

NoDuplicates(s) == \A i, j \in 1..Len(s) : s[i] = s[j] => i = j

\* the orders in which a set can be listed
Orders(S) == {o \in [1..Cardinality(S) -> S] : \A x \in S : \E i \in DOMAIN o : o[i] = x}

-----------------------------------------------------------------------------
(* Text literals of the source *)

Slash == <<"/">>
T_http == <<"h", "t", "t", "p">>
T_http_1 == <<"h", "t", "t", "p", ":", "/">>
T_http_2 == <<"h", "t", "t", "p", ":", "/", "/">>
T_https_1 == <<"h", "t", "t", "p", "s", ":", "/">>
T_https_2 == <<"h", "t", "t", "p", "s", ":", "/", "/">>
T_double_slash == <<"/", "/">>
T_craig == <<"c", "r", "a", "i", "g", ".", "f", "r">>
T_s == <<"/", "s", "/">>
T_index_s == <<"/", "i", "n", "d", "e", "x", ".", "p", "h", "p", "/", "s", "/">>
T_craig_opendata == <<"c", "r", "a", "i", "g", ".", "f", "r", "/", "s", "/", "o", "p", "e", "n", "d", "a", "t", "a">>
T_s_opendata == <<"/", "s", "/", "o", "p", "e", "n", "d", "a", "t", "a">>
T_opendata == <<"o", "p", "e", "n", "d", "a", "t", "a">>
T_public_webdav == <<"/", "p", "u", "b", "l", "i", "c", ".", "p", "h", "p", "/", "w", "e", "b", "d", "a", "v">>
T_public_webdav_rel == <<"p", "u", "b", "l", "i", "c", ".", "p", "h", "p", "/", "w", "e", "b", "d", "a", "v">>
T_download == <<"/", "d", "o", "w", "n", "l", "o", "a", "d">>
T_remote_dav == <<"/", "r", "e", "m", "o", "t", "e", ".", "p", "h", "p", "/", "d", "a", "v", "/">>
T_index_dav == <<"/", "i", "n", "d", "e", "x", ".", "p", "h", "p", "/", "d", "a", "v", "/">>
T_owncloud_remote == <<"/", "o", "w", "n", "c", "l", "o", "u", "d", "/", "r", "e", "m", "o", "t", "e", ".", "p", "h", "p", "/">>

\* the Nextcloud/ownCloud markers of smart_connect and finalize_connection
webdav_path_indicators == {T_remote_dav, T_index_dav, T_owncloud_remote}

-----------------------------------------------------------------------------
(* What a handler did *)

NoRequests == <<>>

NoInput == <<>>

\* op: the handler; input: what the user gave it; calls: the methods it went
\* through, in order; reqs: the requests it sent; modals: the message boxes it
\* showed; escaped: an exception left the handler
Ev(op, input, calls, reqs, modals, escaped) ==
    [op |-> op, input |-> input, calls |-> calls, reqs |-> reqs,
     modals |-> modals, escaped |-> escaped]

\* a request that was sent, with the status of its answer (NoAnswer: requests
\* raised instead of answering); timeout is the set holding the timeout= argument,
\* empty when the call gives none
Request(method, depth, timeout, status) ==
    [method |-> method, depth |-> depth, timeout |-> timeout, status |-> status]

-----------------------------------------------------------------------------
(* QSettings: hierarchical keys, '/' separates the levels *)

\* the group path a key names: its non-empty levels
RECURSIVE nonEmpty(_)
nonEmpty(parts) ==
    IF parts = <<>> THEN <<>>
    ELSE IF Head(parts) = <<>> THEN nonEmpty(Tail(parts))
    ELSE <<Head(parts)>> \o nonEmpty(Tail(parts))

beginGroup(conn_name) == nonEmpty(split(conn_name, Slash))

\* QSettings.childGroups() of the connections group
childGroups(store) == {g[1] : g \in {p \in DOMAIN store : Len(p) >= 1}}

\* the code points of the characters names are made of, in order
CodePoints ==
    <<" ", ".", "/", "0", "1", "2", "A", "B", "C", "a", "b", "c", "d", "x", "y", "z">>

ord(c) == CHOOSE k \in DOMAIN CodePoints : CodePoints[k] = c

\* x < y for str
RECURSIVE str_less(_, _)
str_less(x, y) ==
    IF y = <<>> THEN FALSE
    ELSE IF x = <<>> THEN TRUE
    ELSE IF Head(x) = Head(y) THEN str_less(Tail(x), Tail(y))
    ELSE ord(Head(x)) < ord(Head(y))

\* childGroups() as the list it is: QSettings keeps its keys sorted
group_names(store) ==
    CHOOSE o \in Orders(childGroups(store)) :
        \A k \in DOMAIN o : \A l \in DOMAIN o : k < l => str_less(o[k], o[l])

DefaultRootPath == Slash

\* settings.value(key, default) for the five keys inside the group conn_name
groupValues(store, conn_name) ==
    LET g == beginGroup(conn_name) IN
    IF g \in DOMAIN store
    THEN [url |-> store[g].url, username |-> store[g].username,
          password |-> store[g].password, root_path |-> store[g].root_path]
    ELSE [url |-> <<>>, username |-> <<>>, password |-> <<>>,
          root_path |-> DefaultRootPath]

-----------------------------------------------------------------------------
(* The connection dialog (webdav_connection_dialog.py) *)

\* what the user may have typed into the five fields when a button is clicked
In_plain ==
    [name |-> <<"a">>, url |-> <<"h", "t", "t", "p", ":", "/", "/", "h", "/">>,
     username |-> <<"u">>, password |-> <<"p">>, root_path |-> <<"d">>]
In_nextcloud ==
    [name |-> <<" ", "a">>,
     url |-> <<"h", "/", "r", "e", "m", "o", "t", "e", ".", "p", "h", "p", "/", "d", "a", "v", "/", "x">>,
     username |-> <<>>, password |-> <<>>, root_path |-> <<"/">>]
In_craig ==
    [name |-> <<"b">>,
     url |-> <<" ", "h", "t", "t", "p", ":", "/", "/", "c", "r", "a", "i", "g", ".", "f", "r", "/", "s", "/", "o", "p", "e", "n", "d", "a", "t", "a">>,
     username |-> <<>>, password |-> <<>>, root_path |-> <<"d">>]
In_share ==
    [name |-> <<"c">>,
     url |-> <<"h", "t", "t", "p", ":", "/", "/", "H", "/", "s", "/", "t">>,
     username |-> <<"u">>, password |-> <<>>, root_path |-> <<"/", "d", "/">>]
In_nested ==
    [name |-> <<"a", "/", "b">>, url |-> <<"h", "t", "t", "p", ":", "/", "/", "h">>,
     username |-> <<>>, password |-> <<>>, root_path |-> <<"/", "d">>]
In_web ==
    [name |-> <<"d">>, url |-> <<"h", "t", "t", "p", ":", "/", "w", "/">>,
     username |-> <<>>, password |-> <<>>, root_path |-> <<"/">>]
In_blank_name ==
    [name |-> <<" ">>, url |-> <<"h">>,
     username |-> <<>>, password |-> <<>>, root_path |-> <<"/">>]
In_blank_url ==
    [name |-> <<"c">>, url |-> <<" ", "/">>,
     username |-> <<>>, password |-> <<>>, root_path |-> <<"/">>]

DialogInputs ==
    {In_plain, In_nextcloud, In_craig, In_share, In_nested, In_blank_name, In_blank_url}

get_connection_info(fields) ==
    [name |-> strip(fields.name),
     url |-> rstrip(strip(fields.url), "/"),
     username |-> strip(fields.username),
     password |-> fields.password,
     root_path |-> IF strip(fields.root_path) # <<>> THEN strip(fields.root_path) ELSE Slash]

\* accept(): the two checks that stand before super().accept()
accept_name_ok(conn_info) == strip(conn_info.name) # <<>>

\* accept() without its second check
accept_url_unchecked(conn_info) == TRUE

accept_url_ok(conn_info) == strip(conn_info.url) # <<>>

-----------------------------------------------------------------------------
(* Profiles: save_connection, load_connections, on_connection_changed *)

NoConnection == <<"<None>">>

NoItems == [exists |-> FALSE, list |-> <<>>]

Items(list) == [exists |-> TRUE, list |-> list]

NotConnected == "Non connecte"

\* the in-memory dict load_connections builds for the group conn_name
loaded_conn_info(store, conn_name) ==
    LET v == groupValues(store, conn_name) IN
    [name |-> conn_name, url |-> v.url, username |-> v.username,
     password |-> v.password, root_path |-> v.root_path,
     webdav_url |-> <<>>, has_webdav_url |-> FALSE, has_share_info |-> FALSE]

\* settings.setValue(key, value) for every item of conn_info, inside the group
save_connection(store, conn_info) ==
    LET g == beginGroup(conn_info.name) IN
    [p \in DOMAIN store \cup {g} |-> IF p = g THEN conn_info ELSE store[p]]

\* the slot of connection_combo.currentTextChanged; ui is the part of the
\* widget it touches
on_connection_changed(ui, conns, conn_name) ==
    IF conn_name # <<>> /\ conn_name \in DOMAIN conns
    THEN [cur |-> conn_name, cstatus |-> NotConnected, items |-> NoItems]
    ELSE [ui EXCEPT !.cur = NoConnection]

\* load_connections: the dicts it builds
load_connections_dicts(store) ==
    [n \in childGroups(store) |-> loaded_conn_info(store, n)]

\* load_connections: the signals of connection_combo.clear() and of the first
\* addItem(), which makes that item the current one
load_connections_ui(ui, combo_before, store, order) ==
    LET cleared == IF combo_before # <<>>
                   THEN on_connection_changed(ui, <<>>, <<>>)
                   ELSE ui
    IN IF order # <<>>
       THEN on_connection_changed(cleared, load_connections_dicts(store), order[1])
       ELSE cleared

\* load_connections without connection_combo.clear()
combo_not_cleared(combo_before, store) == combo_before \o group_names(store)

\* load_connections: what connection_combo lists after clear() and one
\* addItem() per group
load_connections_combo(combo_before, store) == group_names(store)

\* connection_combo.setCurrentText(name): a no-op unless name is an item and
\* is not the current one
setCurrentText(ui, conns, combo, name) ==
    IF name \in SeqToSet(combo) /\ name # ui.cur
    THEN on_connection_changed(ui, conns, name)
    ELSE ui

Ui == [cur |-> current_connection, cstatus |-> connection_status, items |-> current_items]

-----------------------------------------------------------------------------
(* The widget as a value: the methods are operators from widget to widget.  *)
(* calls, reqs, modals and escaped accumulate what the running handler does *)

Widget ==
    [settings |-> settings, connections |-> connections,
     connection_combo |-> connection_combo, current_connection |-> current_connection,
     session |-> session, current_mode |-> current_mode, current_path |-> current_path,
     current_items |-> current_items, navigation_history |-> navigation_history,
     current_path_before_navigation |-> current_path_before_navigation,
     status_label |-> status_label, connection_status |-> connection_status,
     buttons |-> buttons, file_handlers |-> file_handlers,
     calls |-> <<>>, reqs |-> NoRequests, modals |-> <<>>, escaped |-> FALSE]

\* the handler op, given input, ends with the widget as w
Becomes(w, op, input) ==
    /\ settings' = w.settings
    /\ connections' = w.connections
    /\ connection_combo' = w.connection_combo
    /\ current_connection' = w.current_connection
    /\ session' = w.session
    /\ current_mode' = w.current_mode
    /\ current_path' = w.current_path
    /\ current_items' = w.current_items
    /\ navigation_history' = w.navigation_history
    /\ current_path_before_navigation' = w.current_path_before_navigation
    /\ status_label' = w.status_label
    /\ connection_status' = w.connection_status
    /\ buttons' = w.buttons
    /\ file_handlers' = w.file_handlers
    /\ ev' = Ev(op, input, w.calls, w.reqs, w.modals, w.escaped)

called(w, method) == [w EXCEPT !.calls = Append(@, method)]

sent(w, request) == [w EXCEPT !.reqs = Append(@, request)]

\* QMessageBox.warning / critical / information: a modal box
box(w, kind) == [w EXCEPT !.modals = Append(@, kind)]

label(w, text) == [w EXCEPT !.status_label = text]

\* what a method that may end by an exception gives: the widget, and whether
\* the exception left it
Returned(w) == [raised |-> FALSE, w |-> w]

Raised(w) == [raised |-> TRUE, w |-> w]

\* the dict self.current_connection refers to
cc(w) == w.connections[w.current_connection]

setcc(w, key, value) ==
    [w EXCEPT !.connections[w.current_connection] =
        [k \in DOMAIN @ |-> IF k = key THEN value ELSE @[k]]]

-----------------------------------------------------------------------------
(* Answers of the server *)

NoAnswer == "exception"

Statuses == {"200", "207", "404", "429"}

Answers == Statuses \cup {NoAnswer}

ProbeTimeout == 10
ListingTimeout == 30
DownloadTimeout == 60
RasterTimeout == 120

-----------------------------------------------------------------------------
(* File types: the lookup table of __init__ and extract_item_info *)

\* the table __init__ assigns to self.file_handlers, in the order of the source
file_handlers_init ==
    <<
       [ext |-> <<".", "t", "i", "f">>, type |-> "raster", icon |-> "raster", handler |-> "handle_raster_file"],
       [ext |-> <<".", "t", "i", "f", "f">>, type |-> "raster", icon |-> "raster", handler |-> "handle_raster_file"],
       [ext |-> <<".", "e", "c", "w">>, type |-> "raster", icon |-> "raster", handler |-> "handle_raster_file"],
       [ext |-> <<".", "j", "p", "2">>, type |-> "raster", icon |-> "raster", handler |-> "handle_raster_file"],
       [ext |-> <<".", "s", "h", "p">>, type |-> "vector", icon |-> "vector", handler |-> "handle_vector_file"],
       [ext |-> <<".", "g", "p", "k", "g">>, type |-> "geopackage", icon |-> "database", handler |-> "handle_geopackage_file"],
       [ext |-> <<".", "s", "q", "l", "i", "t", "e">>, type |-> "database", icon |-> "database", handler |-> "handle_database_file"],
       [ext |-> <<".", "g", "e", "o", "j", "s", "o", "n">>, type |-> "vector", icon |-> "vector", handler |-> "handle_vector_file"],
       [ext |-> <<".", "k", "m", "l">>, type |-> "vector", icon |-> "vector", handler |-> "handle_vector_file"],
       [ext |-> <<".", "z", "i", "p">>, type |-> "archive", icon |-> "archive", handler |-> "handle_archive_file"],
       [ext |-> <<".", "t", "a", "r">>, type |-> "archive", icon |-> "archive", handler |-> "handle_archive_file"],
       [ext |-> <<".", "g", "z">>, type |-> "archive", icon |-> "archive", handler |-> "handle_archive_file"],
       [ext |-> <<".", "q", "g", "s">>, type |-> "qgis_project", icon |-> "project", handler |-> "handle_qgis_project"],
       [ext |-> <<".", "q", "g", "z">>, type |-> "qgis_project", icon |-> "project", handler |-> "handle_qgis_project"],
       [ext |-> <<".", "x", "m", "l">>, type |-> "metadata", icon |-> "text", handler |-> "handle_metadata_file"],
       [ext |-> <<".", "j", "s", "o", "n">>, type |-> "metadata", icon |-> "text", handler |-> "handle_metadata_file"],
       [ext |-> <<".", "h", "t", "m", "l">>, type |-> "html_debug", icon |-> "text", handler |-> "handle_generic_file"]
    >>

unknown_file_info == [type |-> "unknown", icon |-> "file", handler |-> "handle_generic_file"]

folder_file_info == [type |-> "folder", icon |-> "folder", handler |-> "handle_folder"]

\* self.file_handlers.get(file_extension, {unknown ...})
file_handlers_get(table, file_extension) ==
    IF \E i \in 1..Len(table) : table[i].ext = file_extension
    THEN LET r == table[CHOOSE i \in 1..Len(table) : table[i].ext = file_extension]
         IN [type |-> r.type, icon |-> r.icon, handler |-> r.handler]
    ELSE unknown_file_info

\* pathlib: PurePath(name).suffix of a name without separator: from the last
\* dot on, unless that dot is the first or the last character
suffix(name) ==
    LET dots == {i \in 1..Len(name) : name[i] = "."} IN
    IF dots = {} THEN <<>>
    ELSE LET i == CHOOSE d \in dots : \A e \in dots : e <= d IN
         IF 1 < i /\ i < Len(name) THEN SubSeq(name, i, Len(name)) ELSE <<>>

\* extract_item_info: the name of the entry
item_name(file_path) ==
    IF endswith(file_path, Slash)
    THEN LET parts == split(rstrip(file_path, "/"), Slash) IN parts[Len(parts)]
    ELSE LET parts == split(file_path, Slash) IN parts[Len(parts)]

\* the extension without .lower()
extension_as_written(name, is_folder) == IF is_folder THEN <<>> ELSE suffix(name)

\* extract_item_info: extension and file_info of the entry
item_extension(name, is_folder) == IF is_folder THEN <<>> ELSE lower(suffix(name))

item_file_info(table, name, is_folder) ==
    IF ~is_folder THEN file_handlers_get(table, item_extension(name, is_folder))
    ELSE folder_file_info

-----------------------------------------------------------------------------
(* Paths: clean_nextcloud_path, fix_shared_link_path *)

\* s.count(sub): occurrences that do not overlap, from the left
RECURSIVE count(_, _)
count(s, sub) ==
    IF ~contains(s, sub) THEN 0
    ELSE 1 + count(SubSeq(s, find(s, sub) + Len(sub), Len(s)), sub)

\* parts[-1]
last(parts) == parts[Len(parts)]

\* [^/]+ at position i: the end of the longest run without '/', 0 when empty
RECURSIVE runEnd(_, _)
runEnd(s, i) == IF i <= Len(s) /\ s[i] # "/" THEN runEnd(s, i + 1) ELSE i - 1

\* The five patterns of clean_nextcloud_path have the shape
\*     (.*/M U)/(.*?/)*M U/(.*)
\* with M a literal and U either [^/]+ (user is TRUE) or nothing.  re.match
\* succeeds iff a first '/M U/' is followed, at its end or after a later '/',
\* by a second 'M U/'; the greedy (.*?/)* leaves group 3 what follows the last
\* such second occurrence.
\* the position after 'M U' when M stands at i and U ends at u
afterUser(s, i, M, user, u) ==
    IF user /\ u < i + Len(M) THEN 0
    ELSE IF u + 1 <= Len(s) /\ s[u + 1] = "/" THEN u + 2 ELSE 0

\* the position after 'M U/' when it stands at i, 0 when it does not
markerEnd(s, i, M, user) ==
    IF ~(i + Len(M) - 1 <= Len(s) /\ SubSeq(s, i, i + Len(M) - 1) = M) THEN 0
    ELSE afterUser(s, i, M, user, IF user THEN runEnd(s, i + Len(M)) ELSE i + Len(M) - 1)

firstMarkers(s, M, user) ==
    {i \in 2..Len(s) : s[i - 1] = "/" /\ markerEnd(s, i, M, user) # 0}

\* the markers that stand after the end of another one
secondMarkers(s, M, user, firsts) ==
    {e \in firsts : \E i \in firsts : markerEnd(s, i, M, user) <= e}

\* group 3 of the match, <<"<no match>">> when the pattern does not match
NoMatch == <<"<no match>">>

group3(s, M, user, seconds) ==
    IF seconds = {} THEN NoMatch
    ELSE SubSeq(s, markerEnd(s, greatest(seconds), M, user), Len(s))

duplication_match(s, M, user) ==
    group3(s, M, user, secondMarkers(s, M, user, firstMarkers(s, M, user)))

nextcloud_patterns ==
    << [M |-> <<"r", "e", "m", "o", "t", "e", ".", "p", "h", "p", "/", "d", "a", "v", "/", "f", "i", "l", "e", "s", "/">>, user |-> TRUE],
       [M |-> <<"i", "n", "d", "e", "x", ".", "p", "h", "p", "/", "d", "a", "v", "/", "f", "i", "l", "e", "s", "/">>, user |-> TRUE],
       [M |-> <<"o", "w", "n", "c", "l", "o", "u", "d", "/", "r", "e", "m", "o", "t", "e", ".", "p", "h", "p", "/", "d", "a", "v", "/", "f", "i", "l", "e", "s", "/">>, user |-> TRUE],
       [M |-> <<"m", "d", "r", "i", "v", "e", "/", "r", "e", "m", "o", "t", "e", ".", "p", "h", "p", "/", "d", "a", "v", "/", "f", "i", "l", "e", "s", "/">>, user |-> TRUE],
       [M |-> <<"p", "u", "b", "l", "i", "c", ".", "p", "h", "p", "/", "w", "e", "b", "d", "a", "v">>, user |-> FALSE] >>

segments_to_check ==
    << <<"/", "r", "e", "m", "o", "t", "e", ".", "p", "h", "p", "/">>,
       <<"/", "i", "n", "d", "e", "x", ".", "p", "h", "p", "/">>,
       <<"/", "m", "d", "r", "i", "v", "e", "/">>,
       <<"/", "o", "w", "n", "c", "l", "o", "u", "d", "/">>,
       <<"/", "p", "u", "b", "l", "i", "c", ".", "p", "h", "p", "/", "w", "e", "b", "d", "a", "v", "/">> >>

with_leading_slash(s) == IF startswith(s, Slash) THEN s ELSE Slash \o s

\* With an empty base url every non-empty path "starts with" it and case 1
\* calls itself on the same path again: Python ends that with RecursionError
raises_RecursionError(path, conn_url) == path # <<>> /\ rstrip(conn_url, "/") = <<>>

RecursionError == <<"<RecursionError>">>

\* clean_nextcloud_path, case 2: the patterns that match path
matching_patterns(path) ==
    {k \in 1..Len(nextcloud_patterns) :
        duplication_match(path, nextcloud_patterns[k].M, nextcloud_patterns[k].user) # NoMatch}

\* group 3 as it was matched, without the '/' lines 2876-2877 put in front
group3_as_matched(path, pattern) ==
    duplication_match(path, pattern.M, pattern.user)

pattern_group3(path, pattern) ==
    with_leading_slash(duplication_match(path, pattern.M, pattern.user))

\* clean_nextcloud_path, case 3: the segments path holds more than once
repeated_segments(path) ==
    {k \in 1..Len(segments_to_check) :
        /\ contains(path, segments_to_check[k])
        /\ Len(split(path, segments_to_check[k])) > 2}

segment_rest(path, segment) == with_leading_slash(segment \o last(split(path, segment)))

\* clean_nextcloud_path, cases 2 to 4
clean_duplications(path, matching, repeated) ==
    IF matching # {} THEN pattern_group3(path, nextcloud_patterns[least(matching)])
    ELSE IF repeated # {} THEN segment_rest(path, segments_to_check[least(repeated)])
    ELSE with_leading_slash(path)

RECURSIVE clean_nextcloud_path(_, _)
clean_relative_path(relative_path, conn_url) ==
    IF relative_path = <<>> THEN Slash
    ELSE clean_nextcloud_path(with_leading_slash(relative_path), conn_url)

clean_from(path, conn_url, base_url) ==
    IF startswith(path, base_url)
    THEN clean_relative_path(SubSeq(path, Len(base_url) + 1, Len(path)), conn_url)
    ELSE clean_duplications(path, matching_patterns(path), repeated_segments(path))

clean_nextcloud_path(path, conn_url) ==
    IF path = <<>> THEN Slash
    ELSE IF raises_RecursionError(path, conn_url) THEN RecursionError
    ELSE clean_from(path, conn_url, rstrip(conn_url, "/"))

-----------------------------------------------------------------------------
(* What the server holds: the environment of the widget *)

\* folders nest this deep on the server
MaxDepth == 1

\* how many entries navigation_history may hold before opening folders stops
MaxHistory == 2

depth(path) == Len(nonEmpty(split(path, Slash)))

as_folder(path) == IF endswith(path, Slash) THEN path ELSE path \o Slash

\* the file a folder holds: a raster, or an archive whose name needs unquoting
\* and has an upper-case extension
T_x_tif == <<"x", ".", "t", "i", "f">>

T_y_z_ZIP == <<"y", "%", "2", "0", "z", ".", "Z", "I", "P">>

file_in(path) == IF depth(path) % 2 = 1 THEN T_x_tif ELSE T_y_z_ZIP

subfolders_in(path) == IF depth(path) < MaxDepth THEN <<<<"a", "/">>>> ELSE <<>>

\* The servers: what answers at a url is a WebDAV server, a Nextcloud server
\* with a shared link, a web server with index pages, or nothing
T_host_h == <<"/", "/", "h">>

T_host_H == <<"/", "/", "H">>

T_host_w == <<"/", "/", "w">>

T_host_craig == <<"/", "/", "c", "r", "a", "i", "g", ".", "f", "r">>

server_kind(url) ==
    IF contains(url, T_host_h) THEN "webdav"
    ELSE IF contains(url, T_host_H) \/ contains(url, T_host_craig) THEN "share"
    ELSE IF contains(url, T_host_w) THEN "html"
    ELSE "none"

\* The multistatus body of a PROPFIND with Depth 1 on the folder at path: the
\* folder itself, then its children; hrefs are percent-encoded
multistatus_of(folder, subfolders, file) ==
    <<[href |-> folder, collection |-> TRUE]>>
    \o [i \in DOMAIN subfolders |-> [href |-> folder \o subfolders[i], collection |-> TRUE]]
    \o <<[href |-> folder \o file, collection |-> FALSE]>>

multistatus(path) == multistatus_of(as_folder(path), subfolders_in(path), file_in(path))

\* The links of the HTML page a GET on the folder at path answers with
html_links(path) == subfolders_in(path) \o <<file_in(path)>>

\* urllib.parse.unquote, for the escapes the listings hold
RECURSIVE unquote(_)
unquote(s) ==
    IF s = <<>> THEN <<>>
    ELSE IF startswith(s, <<"%", "2", "0">>) THEN <<" ">> \o unquote(SubSeq(s, 4, Len(s)))
    ELSE IF startswith(s, <<"%", "2", "F">>) THEN <<"/">> \o unquote(SubSeq(s, 4, Len(s)))
    ELSE <<Head(s)>> \o unquote(Tail(s))

-----------------------------------------------------------------------------
(* Listing: parse_webdav_response, extract_item_info, parse_html_response *)

\* the dict extract_item_info returns, lines 757-774
\* extract_item_info, lines 743-751
built_item_url(file_path, clean_path, base_url) ==
    IF startswith(file_path, T_http) /\ ~startswith(file_path, base_url) THEN file_path
    ELSE base_url \o clean_path

webdav_item(name, is_folder, file_info, clean_path, url) ==
    [name |-> name, path |-> clean_path, is_folder |-> is_folder,
     extension |-> item_extension(name, is_folder),
     file_type |-> file_info.type, icon_type |-> file_info.icon,
     handler |-> file_info.handler,
     url |-> url,
     has_clean_path |-> TRUE, clean_path |-> clean_path]

named_item(table, name, is_collection, clean_path, url) ==
    webdav_item(name, is_collection, item_file_info(table, name, is_collection),
                clean_path, url)

cleaned_item(table, file_path, is_collection, clean_path, base_url) ==
    named_item(table, item_name(file_path), is_collection, clean_path,
               built_item_url(file_path, clean_path, base_url))

extract_item_info(table, file_path, is_collection, conn_url) ==
    cleaned_item(table, file_path, is_collection,
                 clean_nextcloud_path(file_path, conn_url), rstrip(conn_url, "/"))

\* parse_webdav_response ends by the RecursionError of clean_nextcloud_path
parse_raises(responses, conn_url) ==
    \E i \in 1..Len(responses) : raises_RecursionError(unquote(responses[i].href), conn_url)

\* parse_webdav_response, lines 672-676: the entry is the folder listed
is_parent_folder(path, cur_path) ==
    rstrip(path, "/") = rstrip(cur_path, "/") \/ path = cur_path

\* parse_webdav_response, lines 660-684: the items one response adds
response_items(table, response, raw_path, conn_url, cur_path) ==
    IF is_parent_folder(clean_nextcloud_path(raw_path, conn_url), cur_path) THEN <<>>
    ELSE <<extract_item_info(table, raw_path, response.collection, conn_url)>>

RECURSIVE parse_webdav_response(_, _, _, _)
parse_webdav_response(table, responses, conn_url, cur_path) ==
    IF responses = <<>> THEN <<>>
    ELSE response_items(table, Head(responses), unquote(Head(responses).href),
                        conn_url, cur_path)
         \o parse_webdav_response(table, Tail(responses), conn_url, cur_path)

\* the dict create_html_item returns
html_item(name, is_folder, file_info, item_url) ==
    [name |-> name, path |-> item_url, is_folder |-> is_folder,
     extension |-> item_extension(name, is_folder),
     file_type |-> file_info.type, icon_type |-> file_info.icon,
     handler |-> file_info.handler, url |-> item_url,
     has_clean_path |-> FALSE, clean_path |-> <<>>]

\* create_html_item for a link of the page at folder_url
create_html_item(table, name, url, is_folder) ==
    html_item(strip(name), is_folder, item_file_info(table, strip(name), is_folder),
              IF is_folder /\ ~endswith(url, Slash) THEN url \o Slash ELSE url)

\* parse_html_response: the item of one link, if it gives one
link_items(table, link_url, name, folder_url) ==
    IF name = <<>> \/ startswith(link_url, T_http) THEN <<>>
    ELSE <<create_html_item(table, name, folder_url \o Slash \o link_url,
                            endswith(link_url, Slash) \/ ~contains(name, <<".">>))>>

RECURSIVE html_items(_, _, _)
html_items(table, links, folder_url) ==
    IF links = <<>> THEN <<>>
    ELSE link_items(table, Head(links), unquote(last(split(Head(links), Slash))), folder_url)
         \o html_items(table, Tail(links), folder_url)

\* items.sort(key=lambda x: (not x['is_folder'], ...)): folders first
folders_first(items) ==
    SelectSeq(items, LAMBDA x : x.is_folder) \o SelectSeq(items, LAMBDA x : ~x.is_folder)

parse_html_response(table, links, folder_url) ==
    folders_first(html_items(table, links, folder_url))

-----------------------------------------------------------------------------
(* Connection helpers *)

is_craig_nextcloud_server(w) ==
    contains(lower(cc(w).url), T_s_opendata) \/ contains(lower(cc(w).url), T_craig)

is_nextcloud_shared_link(w) ==
    contains(lower(cc(w).url), T_s) \/ contains(lower(cc(w).url), T_index_s)

\* get_nextcloud_share_info()['public_webdav'], for a url that holds '/s/'
public_webdav(url) == split(url, T_s)[1] \o T_public_webdav

has_share_info(url) == contains(url, T_s)

\* configure_shared_link_auth: the default user of the CRAIG share
configure_shared_link_auth(w) ==
    IF ~is_nextcloud_shared_link(w) THEN w
    ELSE IF contains(lower(cc(w).url), T_craig_opendata) /\ cc(w).username = <<>>
         THEN label(setcc(w, "username", T_opendata), "Configuration speciale pour CRAIG OpenData")
         ELSE IF has_share_info(cc(w).url) /\ cc(w).username = <<>>
              THEN label(w, "Configuration pour lien partage public")
              ELSE w

NoHistory == [exists |-> FALSE, list |-> <<>>]

NoPathBefore == [exists |-> FALSE, path |-> <<>>]

NoSession == [live |-> FALSE, auth |-> <<>>, owner |-> NoConnection]

\* requests.Session() with session.auth set when the profile has a user;
\* owner: the profile the session object was built from
new_session(conn) ==
    [live |-> TRUE,
     auth |-> IF conn.username # <<>> THEN <<conn.username, conn.password>> ELSE <<>>,
     owner |-> conn.name]

update_navigation_ui(w) ==
    [w EXCEPT !.buttons =
        [@ EXCEPT !.up = w.current_path # Slash /\ w.current_mode \in {"webdav", "http_html"},
                  !.back = w.navigation_history.exists /\ Len(w.navigation_history.list) > 1]]

\* populate_content_table that leaves self.current_items as it is
table_not_replaced(w, items) == w

\* populate_content_table: self.current_items = items, then apply_filter
populate_content_table(w, items) == [w EXCEPT !.current_items = Items(items)]

-----------------------------------------------------------------------------
(* Listing the current location *)

\* the answers the listing request of a step can get: good is the status
\* that carries a listing
ListingAnswers(good) ==
    {good, "404", NoAnswer}

T_scheme == <<":", "/", "/">>

T_public_twice == <<"p", "u", "b", "l", "i", "c", ".", "p", "h", "p", "/", "w", "e", "b", "d", "a", "v", "/", "p", "u", "b", "l", "i", "c", ".", "p", "h", "p", "/", "w", "e", "b", "d", "a", "v">>

T_remote_twice == <<"r", "e", "m", "o", "t", "e", ".", "p", "h", "p", "/", "d", "a", "v", "/", "r", "e", "m", "o", "t", "e", ".", "p", "h", "p", "/", "d", "a", "v">>

T_remote_dav_rel == <<"r", "e", "m", "o", "t", "e", ".", "p", "h", "p", "/", "d", "a", "v">>

\* if twice in url: url = url.replace(twice, once)
replace_if_in(url, twice, once) ==
    IF contains(url, twice) THEN replace(url, twice, once) ELSE url

\* if url.startswith(one) and not url.startswith(two): url = url.replace(one, two)
fix_protocol(url, one, two) ==
    IF startswith(url, one) /\ ~startswith(url, two) THEN replace(url, one, two) ELSE url

\* sanitize_webdav_url, lines 4262-4276: the duplications and the protocol
sanitize_protocol(url) ==
    fix_protocol(
        fix_protocol(
            replace_if_in(replace_if_in(url, T_public_twice, T_public_webdav_rel),
                          T_remote_twice, T_remote_dav_rel),
            T_http_1, T_http_2),
        T_https_1, T_https_2)

\* requests sends to url: it has a protocol and a host; for any other url
\* session.request raises MissingSchema or InvalidURL and sends nothing
has_host(url) ==
    \/ startswith(url, T_http_2) /\ Len(url) > Len(T_http_2) /\ url[Len(T_http_2) + 1] # "/"
    \/ startswith(url, T_https_2) /\ Len(url) > Len(T_https_2) /\ url[Len(T_https_2) + 1] # "/"

\* sanitize_webdav_url, lines 4278-4281: no host after the protocol
without_host(u, parts) == contains(u, T_scheme) /\ Len(parts) = 2 /\ parts[2] = <<>>

protocol_without_host(u) == without_host(u, split(u, T_scheme))

\* sanitize_webdav_url returns None
sanitize_returns_None(url) == url # <<>> /\ protocol_without_host(sanitize_protocol(url))

\* what sanitize_webdav_url returns for a url without host
NoUrl == <<"<None>">>

\* url.split(sep, 1) when sep is in url: what stands before and after the first sep
split_once(url, sep) ==
    <<SubSeq(url, 1, find(url, sep) - 1), SubSeq(url, find(url, sep) + Len(sep), Len(url))>>

\* while '//' in rest: rest = rest.replace('//', '/')
RECURSIVE single_slashes(_)
single_slashes(rest) ==
    IF contains(rest, T_double_slash)
    THEN single_slashes(replace(rest, T_double_slash, Slash))
    ELSE rest

\* sanitize_webdav_url, lines 4286-4293: the double slashes after the protocol
protocol_and_rest(parts) == parts[1] \o T_scheme \o single_slashes(parts[2])

sanitize_slashes(url) ==
    IF contains(url, T_scheme) THEN protocol_and_rest(split_once(url, T_scheme)) ELSE url

T_public_php == <<"/", "p", "u", "b", "l", "i", "c", ".", "p", "h", "p">>

T_public_webdav_slash == <<"/", "p", "u", "b", "l", "i", "c", ".", "p", "h", "p", "/", "w", "e", "b", "d", "a", "v", "/">>

\* sanitize_webdav_url, lines 4301-4304: each pattern is a literal followed by
\* the group ([^/]+/.+)
craig_patterns ==
    << T_public_webdav_rel \o Slash, T_public_twice \o Slash >>

\* re.search(pattern, url): where the literal stands followed by a run without
\* '/', a '/' and one character more
pattern_found(url, literal) ==
    {i \in occurrences(url, literal) :
        /\ runEnd(url, i + Len(literal)) >= i + Len(literal)
        /\ runEnd(url, i + Len(literal)) + 2 <= Len(url)
        /\ url[runEnd(url, i + Len(literal)) + 1] = "/"}

\* match.group(1): from the end of the literal of the leftmost match to the
\* end of url
pattern_group1(url, literal) ==
    SubSeq(url, least(pattern_found(url, literal)) + Len(literal), Len(url))

matching_craig_patterns(url) ==
    {k \in 1..Len(craig_patterns) : pattern_found(url, craig_patterns[k]) # {}}

\* sanitize_webdav_url, lines 4306-4314: the url rebuilt from the first
\* pattern that matches
craig_reconstructed(url, matching) ==
    IF matching = {} THEN url
    ELSE split(url, T_public_php)[1] \o T_public_webdav_slash
         \o pattern_group1(url, craig_patterns[least(matching)])

\* sanitize_webdav_url, lines 4317-4323
craig_forced(url, parts) ==
    IF count(url, T_public_webdav) > 1 /\ Len(parts) > 1
    THEN parts[1] \o T_public_webdav_slash \o last(parts)
    ELSE url

craig_cleaned(url) == craig_forced(url, split(url, T_public_webdav_slash))

\* sanitize_webdav_url, lines 4296-4323: the links of CRAIG
sanitize_craig(url) ==
    IF /\ contains(url, T_craig) /\ contains(url, T_s_opendata)
       /\ contains(url, T_public_webdav_slash) /\ count(url, T_public_webdav) > 1
    THEN craig_cleaned(craig_reconstructed(url, matching_craig_patterns(url)))
    ELSE url

sanitize_webdav_url(url) ==
    IF url = <<>> THEN url
    ELSE IF sanitize_returns_None(url) THEN NoUrl
    ELSE sanitize_craig(sanitize_slashes(sanitize_protocol(url)))

\* refresh_webdav_content, lines 522-545: the base url of the request
listing_base_url(w) ==
    IF w.current_mode = "nextcloud_share" /\ cc(w).has_webdav_url
    THEN rstrip(cc(w).webdav_url, "/")
    ELSE rstrip(cc(w).url, "/")

\* refresh_webdav_content, line 545
is_nextcloud_base(base_url) ==
    \E ind \in webdav_path_indicators \cup {T_public_webdav} : contains(lower(base_url), ind)

\* refresh_webdav_content, lines 596-613: sanitize_webdav_url gives None for
\* the url built from the base url and the path, so that line 613 raises.
\* Only the branch of line 596 can build such a url: on the other branch the
\* base url holds one of the indicators of line 545, hence a host
built_url_invalid(base_url, path) ==
    /\ ~is_nextcloud_base(base_url)
    /\ sanitize_returns_None(replace_if_in(base_url \o with_leading_slash(path),
                                           T_public_twice, T_public_webdav_rel))

url_invalid(w) == built_url_invalid(listing_base_url(w), w.current_path)

\* refresh_webdav_content, lines 524-541: the WebDAV url of a shared link
share_webdav_url(w) ==
    IF w.current_mode # "nextcloud_share" THEN w
    ELSE IF cc(w).has_webdav_url
    THEN label(w, "Utilisation de l'URL WebDAV pour lien partage")
    ELSE IF is_nextcloud_shared_link(w) /\ has_share_info(cc(w).url)
    THEN configure_shared_link_auth(
             label(setcc(setcc(w, "webdav_url", public_webdav(cc(w).url)),
                         "has_webdav_url", TRUE),
                   "URL WebDAV configuree automatiquement"))
    ELSE w

listing_failed(w) == label(box(w, "critical"), "Echec")

\* refresh_webdav_content, lines 635-640: the answer is 207
listing_shown(w, responses) ==
    label(update_navigation_ui(populate_content_table(w,
              parse_webdav_response(w.file_handlers, responses, cc(w).url, w.current_path))),
          "elements charges")

\* refresh_webdav_content, lines 631-644: after the request
listing_answered(w, status, responses) ==
    IF status = "207" /\ ~parse_raises(responses, cc(w).url)
    THEN listing_shown(w, responses)
    ELSE listing_failed(w)

\* refresh_webdav_content that asks for the folder before it lists it
listing_requested_twice(w, answer) ==
    IF url_invalid(w) THEN Raised(w)
    ELSE Returned(listing_answered(
             sent(sent(label(w, "Chargement du contenu depuis ..."),
                       Request("PROPFIND", "0", {ListingTimeout}, answer)),
                  Request("PROPFIND", "1", {ListingTimeout}, answer)),
             answer, multistatus(w.current_path)))

\* refresh_webdav_content, lines 543-644: from the url on
listing_request(w, answer) ==
    IF url_invalid(w) THEN Raised(w)
    ELSE IF ~w.session.live \/ ~has_host(sanitize_protocol(listing_base_url(w) \o Slash))
    THEN Returned(listing_failed(label(w, "Chargement du contenu depuis ...")))
    ELSE Returned(listing_answered(
             sent(label(w, "Chargement du contenu depuis ..."),
                  Request("PROPFIND", "1", {ListingTimeout}, answer)),
             answer, multistatus(w.current_path)))

\* refresh_webdav_content, the listing request answered by answer
refresh_webdav_content(w, answer) ==
    IF w.current_connection = NoConnection
    THEN Raised(called(w, "refresh_webdav_content"))
    ELSE listing_request(share_webdav_url(called(w, "refresh_webdav_content")), answer)

\* refresh_html_content, lines 2604-2606
html_folder_url(w) ==
    rstrip(cc(w).url, "/") \o (IF w.current_path # Slash THEN w.current_path ELSE <<>>)

\* refresh_html_content, lines 2608-2616: after the request
html_answered(w, answer) ==
    IF answer = "200"
    THEN Returned(label(update_navigation_ui(populate_content_table(w,
                      parse_html_response(w.file_handlers,
                                          html_links(w.current_path),
                                          html_folder_url(w)))),
                        "elements trouves (HTML)"))
    ELSE Raised(w)

refresh_html_content(w, answer) ==
    IF ~has_host(html_folder_url(w)) THEN Raised(called(w, "refresh_html_content"))
    ELSE html_answered(sent(called(w, "refresh_html_content"),
                            Request("GET", "", {ListingTimeout}, answer)),
                       answer)

\* the modes refresh_current_location knows
listable_modes == {"webdav", "nextcloud_share", "http_html", "geopackage"}

\* the status the listing request of a mode must be answered with
good_status(mode) == IF mode = "http_html" THEN "200" ELSE "207"

\* the listing answers a step in the mode of w can get: one when no request
\* is sent
StepAnswers(w) ==
    IF /\ w.session.live /\ w.current_mode \in {"webdav", "nextcloud_share", "http_html"}
       /\ w.current_connection # NoConnection
       /\ server_kind(cc(w).url) # "none"
    THEN ListingAnswers(good_status(w.current_mode))
    ELSE {NoAnswer}

\* except Exception: QMessageBox.critical, then the status text
caught(r, text) == IF r.raised THEN label(box(r.w, "critical"), text) ELSE r.w

\* refresh_current_location, lines 503-517: the try block
load_content(w, answer) ==
    IF w.current_mode \in {"webdav", "nextcloud_share"}
    THEN caught(refresh_webdav_content(w, answer), "Erreur de chargement")
    ELSE IF w.current_mode = "http_html"
    THEN caught(refresh_html_content(w, answer), "Erreur de chargement")
    ELSE IF w.current_mode = "geopackage"
    THEN called(w, "refresh_geopackage_content")
    ELSE caught(Raised(w), "Erreur de chargement")

refresh_current_location(w, answer) ==
    IF ~w.session.live THEN called(w, "refresh_current_location")
    ELSE load_content(label(called(w, "refresh_current_location"),
                            "Chargement du contenu..."), answer)

-----------------------------------------------------------------------------
(* Connecting: smart_connect and finalize_connection *)

\* smart_connect, lines 299-300
with_protocol(url) == IF ~startswith(url, T_http) THEN T_https_2 \o lstrip(url, "/") ELSE url

\* smart_connect, lines 316-327: url_parts[0] + '//' + url_parts[1]; the while
\* loop finds no '//' in a part of split('//')
craig_rebuilt(url, url_parts) ==
    IF contains(url, T_craig) /\ contains(url, T_s) /\ Len(url_parts) > 1
    THEN url_parts[1] \o T_double_slash \o url_parts[2]
    ELSE url

craig_url(url) == craig_rebuilt(url, split(url, T_double_slash))

\* smart_connect, lines 296-328: the url it writes back into the profile
normalised_url(url) ==
    craig_url(rstrip(fix_protocol(fix_protocol(with_protocol(strip(url)),
                                               T_http_1, T_http_2),
                                  T_https_1, T_https_2), "/"))

\* finalize_connection, lines 462-463
shared_link_auth(w) ==
    IF is_nextcloud_shared_link(w) THEN configure_shared_link_auth(w) ELSE w

\* finalize_connection, lines 465-470
controls_enabled(w) == [w EXCEPT !.buttons = [@ EXCEPT !.up = TRUE, !.refresh = TRUE]]

\* finalize_connection, lines 474-490: the path the listing starts at
initial_path(w) ==
    IF w.current_mode = "webdav"
    THEN IF \E ind \in webdav_path_indicators : contains(lower(cc(w).url), ind)
         THEN [label(w, "Detection de serveur Nextcloud/ownCloud")
                  EXCEPT !.current_path = Slash]
         ELSE [w EXCEPT !.current_path = with_leading_slash(cc(w).root_path)]
    ELSE [w EXCEPT !.current_path = cc(w).root_path]

finalize_connection(w, answer) ==
    label(refresh_current_location(
              initial_path(controls_enabled(shared_link_auth(
                  called(w, "finalize_connection")))),
              answer),
          "Connecte en mode")

\* the answers a run of smart_connect gets: p1 to the PROPFIND probe, p2 to the
\* GET probe of a shared link, p3 to the plain GET probe (html: its
\* content-type holds 'html'), listing to the first listing request
GetAnswers == {"200", "404", NoAnswer}

Probes(p1, p2, p3, html, listing) ==
    [p1 |-> p1, p2 |-> p2, p3 |-> p3, html |-> html, listing |-> listing]

\* no probe is answered: the server is down, or the url names none
Unanswered == Probes(NoAnswer, NoAnswer, NoAnswer, FALSE, "404")

\* the probes as the server that w is to connect to answers them, when it is up
answered_by(kind, listing) ==
    IF kind = "webdav" THEN Probes("207", "404", "404", FALSE, listing)
    ELSE IF kind = "share" THEN Probes("404", "200", "404", FALSE, listing)
    ELSE IF kind = "html" THEN Probes("404", "404", "200", TRUE, listing)
    ELSE IF kind = "files" THEN Probes("404", "404", "200", FALSE, listing)
    ELSE Probes("404", "404", "404", FALSE, "404")

ConnectAnswers(w) ==
    IF w.current_connection = NoConnection THEN {Unanswered}
    ELSE {Unanswered} \cup {answered_by(server_kind(normalised_url(cc(w).url)), listing) :
                               listing \in {"ok", "404"}}

\* the answer to the first listing request, once the mode is known
first_listing(a, mode) == IF a.listing = "ok" THEN good_status(mode) ELSE a.listing

\* what the probes of smart_connect end with: a mode was found, or none
Connected(w) == [connected |-> TRUE, w |-> w]

NotDetected(w) == [connected |-> FALSE, w |-> w]

connected_as(w, text, mode) ==
    Connected([w EXCEPT !.connection_status = text, !.current_mode = mode])

\* smart_connect, lines 386-391
share_info_stored(w, base_url) ==
    IF contains(base_url, T_s)
    THEN setcc(setcc(setcc(w, "webdav_url", public_webdav(cc(w).url)),
                     "has_webdav_url", TRUE), "has_share_info", TRUE)
    ELSE w

\* smart_connect, lines 398-399
craig_status(w, base_url) ==
    IF contains(lower(base_url), T_craig_opendata)
    THEN [w EXCEPT !.connection_status = "Connecte (CRAIG OpenData)"]
    ELSE w

\* smart_connect, lines 377-403: the probe of a shared link answered 200
shared_link_detected(w, base_url) ==
    Connected([craig_status(
                   configure_shared_link_auth(
                       share_info_stored(label(w, "Lien de partage Nextcloud detecte"),
                                         base_url)),
                   base_url)
               EXCEPT !.current_mode = "nextcloud_share"])

\* smart_connect that looks at the content type before it looks for craig.fr
html_before_craig(w, is_craig, a) ==
    IF a.p3 = "200"
    THEN IF a.html THEN connected_as(w, "Connecte (HTTP/HTML)", "http_html")
         ELSE IF is_craig THEN connected_as(w, "Connecte (CRAIG/WebDAV sur HTTP)", "webdav")
         ELSE connected_as(w, "Connecte (HTTP)", "http_direct")
    ELSE IF is_craig THEN connected_as(w, "Connecte (CRAIG/Hybride)", "webdav_craig")
    ELSE NotDetected(label(box(w, "critical"), "Echec de connexion"))

\* smart_connect, lines 409-458: after the plain GET probe
plain_get_probed(w, is_craig, a) ==
    IF a.p3 = "200"
    THEN IF is_craig THEN connected_as(w, "Connecte (CRAIG/WebDAV sur HTTP)", "webdav")
         ELSE IF a.html THEN connected_as(w, "Connecte (HTTP/HTML)", "http_html")
         ELSE connected_as(w, "Connecte (HTTP)", "http_direct")
    ELSE IF is_craig THEN connected_as(w, "Connecte (CRAIG/Hybride)", "webdav_craig")
    ELSE NotDetected(label(box(w, "critical"), "Echec de connexion"))

plain_get_probe(w, base_url, a) ==
    plain_get_probed(sent(w, Request("GET", "", {ProbeTimeout}, a.p3)),
                     contains(lower(base_url), T_craig), a)

\* smart_connect, lines 372-407: the probe of a shared link
shared_link_probed(w, base_url, a) ==
    IF a.p2 = "200" THEN shared_link_detected(w, base_url)
    ELSE plain_get_probe(w, base_url, a)

\* smart_connect, line 337
is_shared_link(base_url) ==
    contains(lower(base_url), T_s) \/ contains(lower(base_url), T_index_s)

\* smart_connect, lines 353-370: after the PROPFIND probe
webdav_probed(w, base_url, a) ==
    IF a.p1 \in {"200", "207"}
    THEN connected_as(w,
             IF \E ind \in webdav_path_indicators : contains(lower(base_url), ind)
             THEN "Connecte (NextCloud/WebDAV)"
             ELSE IF contains(lower(base_url), T_craig) THEN "Connecte (CRAIG/WebDAV)"
             ELSE "Connecte (WebDAV)",
             "webdav")
    ELSE IF is_shared_link(base_url)
    THEN shared_link_probed(sent(w, Request("GET", "", {ProbeTimeout}, a.p2)), base_url, a)
    ELSE plain_get_probe(w, base_url, a)

\* smart_connect, lines 339-362: the session, then the PROPFIND probe
detect_protocol(w, a) ==
    webdav_probed(sent([w EXCEPT !.session = new_session(cc(w))],
                       Request("PROPFIND", "0", {ProbeTimeout}, a.p1)),
                  cc(w).url, a)

\* smart_connect: finalize_connection() where a mode was found
connection_finalized(o, a) ==
    IF o.connected THEN finalize_connection(o.w, first_listing(a, o.w.current_mode))
    ELSE o.w

\* smart_connect that saves the profile it has normalised
url_normalised_and_saved(w) ==
    [setcc(w, "url", normalised_url(cc(w).url))
        EXCEPT !.settings = save_connection(@, [name |-> cc(w).name,
                                                url |-> normalised_url(cc(w).url),
                                                username |-> cc(w).username,
                                                password |-> cc(w).password,
                                                root_path |-> cc(w).root_path])]

\* smart_connect, line 330
url_normalised(w) == setcc(w, "url", normalised_url(cc(w).url))

smart_connect(w, a) ==
    IF w.current_connection = NoConnection THEN box(called(w, "smart_connect"), "warning")
    ELSE connection_finalized(
             detect_protocol(url_normalised(label(called(w, "smart_connect"),
                                                  "Detection du protocole...")), a),
             a)

-----------------------------------------------------------------------------
(* Navigation *)

T_s_opendata_slash == <<"/", "s", "/", "o", "p", "e", "n", "d", "a", "t", "a", "/">>

\* fix_shared_link_path, lines 4222-4229: the sub-folder a CRAIG url names
craig_subdirectory(base_url) ==
    IF /\ contains(base_url, T_craig) /\ contains(base_url, T_s_opendata)
       /\ contains(base_url, T_s_opendata_slash)
    THEN rstrip(lstrip(split(base_url, T_s_opendata_slash)[2], "/"), "/")
    ELSE <<>>

\* fix_shared_link_path, lines 4240-4246
webdav_deduplicated(path, parts) ==
    IF count(path, T_public_webdav_rel) > 1 /\ Len(parts) > 1
    THEN with_leading_slash(last(parts))
    ELSE path

\* fix_shared_link_path, lines 4231-4251
path_in_share(path, subdirectory, sub_path) ==
    IF subdirectory # <<>> /\ path = Slash THEN sub_path \o Slash
    ELSE IF /\ subdirectory # <<>>
            /\ ~startswith(path, sub_path)
            /\ ~contains(path, sub_path \o Slash)
    THEN sub_path \o with_leading_slash(path)
    ELSE with_leading_slash(
             webdav_deduplicated(path, split(path, T_public_webdav_rel \o Slash)))

path_under(path, subdirectory) == path_in_share(path, subdirectory, Slash \o subdirectory)

fix_shared_link_path(path, mode, conn_url) ==
    IF mode # "nextcloud_share" \/ path = <<>> THEN path
    ELSE path_under(path, craig_subdirectory(lower(conn_url)))

\* navigate_to_path, lines 2102-2108
in_shared_link(w) == w.current_mode = "nextcloud_share" /\ is_nextcloud_shared_link(w)

\* navigate_to_path, lines 2115-2116
as_folder_path(cleaned) ==
    IF cleaned # Slash THEN rstrip(cleaned, "/") \o Slash ELSE cleaned

\* navigate_to_path, lines 2121-2133: the history
history_list(w) == IF w.navigation_history.exists THEN w.navigation_history.list ELSE <<>>

\* recorded_for: the profile that was current when the entry was appended
history_entry(w) ==
    [mode |-> w.current_mode,
     path |-> w.current_path_before_navigation.path,
     items |-> IF w.current_items.exists THEN w.current_items.list ELSE <<>>,
     recorded_for |-> w.current_connection]

history_pushed(w) ==
    IF ~w.current_path_before_navigation.exists THEN history_list(w)
    ELSE Append(history_list(w), history_entry(w))

\* navigate_to_path, lines 2118-2137: from self.current_path = clean_path on
moved_to(w, clean_path, answer) ==
    refresh_current_location(
        label([w EXCEPT !.current_path = clean_path,
                        !.navigation_history = [exists |-> TRUE, list |-> history_pushed(w)],
                        !.current_path_before_navigation =
                            [exists |-> TRUE, path |-> clean_path]],
              "Navigation vers ..."),
        answer)

\* navigate_to_path, lines 2110-2137: from clean_nextcloud_path on
cleaned_and_moved(w, path, answer) ==
    IF raises_RecursionError(path, cc(w).url) THEN Raised(w)
    ELSE Returned(moved_to(w, as_folder_path(clean_nextcloud_path(path, cc(w).url)), answer))

navigate_to_path(w, path, answer) ==
    IF in_shared_link(w)
    THEN cleaned_and_moved(
             label(called(w, "navigate_to_path"), "Navigation dans un lien partage Nextcloud"),
             fix_shared_link_path(path, w.current_mode, cc(w).url), answer)
    ELSE cleaned_and_moved(called(w, "navigate_to_path"), path, answer)

\* navigate_to_html_url, lines 1086-1095
html_relative_path(url, base_url) ==
    IF startswith(url, base_url)
    THEN with_leading_slash(SubSeq(url, Len(base_url) + 1, Len(url)))
    ELSE url

navigate_to_html_url(w, url, answer) ==
    refresh_current_location(
        [called(w, "navigate_to_html_url")
            EXCEPT !.current_path = html_relative_path(url, rstrip(cc(w).url, "/"))],
        answer)

\* handle_folder, lines 1062-1065: the path it opens, RecursionError when
\* clean_nextcloud_path raises it
folder_clean_path(w, folder_data) ==
    IF folder_data.has_clean_path THEN folder_data.clean_path
    ELSE clean_nextcloud_path(folder_data.path, cc(w).url)

\* handle_folder, lines 1060-1072
open_webdav_folder(w, clean_path, answer) ==
    IF clean_path = RecursionError THEN Raised(w)
    ELSE navigate_to_path(IF w.current_mode = "nextcloud_share"
                          THEN label(w, "Navigation dans lien partage")
                          ELSE w,
                          clean_path, answer)

\* handle_folder: the try block
open_folder(w, folder_data, answer) ==
    IF w.current_mode = "http_html"
    THEN Returned(navigate_to_html_url(w, folder_data.url, answer))
    ELSE open_webdav_folder(w,
             IF w.current_mode \in {"webdav", "nextcloud_share"}
             THEN folder_clean_path(w, folder_data)
             ELSE folder_data.path,
             answer)

handle_folder(w, folder_data, answer) ==
    caught(open_folder(called(w, "handle_folder"), folder_data, answer),
           "Erreur ouverture dossier")

\* navigate_up, lines 2091-2095
parent_path(path_parts) ==
    IF Len(path_parts) > 1
    THEN join(SubSeq(path_parts, 1, Len(path_parts) - 1), Slash)
         \o (IF Len(path_parts) > 2 THEN Slash ELSE <<>>)
    ELSE Slash

navigate_up(w, answer) ==
    IF w.current_path # Slash /\ w.current_mode \in {"webdav", "http_html"}
    THEN refresh_current_location(
             [called(w, "navigate_up")
                 EXCEPT !.current_path = parent_path(split(rstrip(w.current_path, "/"), Slash))],
             answer)
    ELSE called(w, "navigate_up")

\* navigate_back, lines 2077-2086
state_restored(w, history, previous_state) ==
    label(update_navigation_ui(
              [w EXCEPT !.navigation_history.list = SubSeq(history, 1, Len(history) - 1),
                        !.current_mode = previous_state.mode,
                        !.current_path = previous_state.path,
                        !.current_items = Items(previous_state.items)]),
          "Retour effectue")

navigate_back(w) ==
    IF w.navigation_history.exists /\ w.navigation_history.list # <<>>
    THEN state_restored(called(w, "navigate_back"), w.navigation_history.list,
                        last(w.navigation_history.list))
    ELSE called(w, "navigate_back")

-----------------------------------------------------------------------------
(* Files: rasters, archives, downloads *)

\* the answers a raster download gets: first to its GET, second to the GET
\* sent again; valid: QgsRasterLayer accepts the downloaded file
RasterAnswers ==
    {a \in [first : {"200", "429", "404", NoAnswer},
            second : {"200", "429", NoAnswer}, valid : BOOLEAN] :
        /\ a.first # "429" => a.second = NoAnswer
        /\ (a.first # "200" /\ a.second # "200") => ~a.valid}

NoRasterAnswer == [first |-> NoAnswer, second |-> NoAnswer, valid |-> FALSE]

raster_failed(w) == label(box(w, "critical"), "Erreur")

\* the download that tries again after any answer but 200
raster_retried_always(w, a) ==
    LET w1 == label(called(w, "load_raster_file_with_download"), "Telechargement depuis ...")
        w2 == sent(w1, Request("GET", "", {RasterTimeout}, a.first))
        w3 == sent(label(w2, "Nouvelle tentative de telechargement..."),
                   Request("GET", "", {RasterTimeout}, a.second))
    IN IF a.first = "200" THEN (IF a.valid THEN label(w2, "Raster charge") ELSE raster_failed(w2))
       ELSE IF a.second = "200"
       THEN (IF a.valid THEN label(w3, "Raster charge") ELSE raster_failed(w3))
       ELSE raster_failed(w3)

load_raster_file_with_download(w, a) ==
    LET w1 == label(called(w, "load_raster_file_with_download"), "Telechargement depuis ...")
        w2 == sent(w1, Request("GET", "", {RasterTimeout}, a.first))
        w3 == sent(label(w2, "Nouvelle tentative de telechargement..."),
                   Request("GET", "", {RasterTimeout}, a.second))
        loaded(x) == IF a.valid THEN label(x, "Raster charge") ELSE raster_failed(x)
    IN IF a.first = "200" THEN loaded(w2)
       ELSE IF a.first = "429"
       THEN IF a.second = "200" THEN loaded(w3) ELSE raster_failed(w3)
       ELSE raster_failed(w2)

load_craig_raster(w, a) ==
    LET w1 == label(called(w, "load_craig_raster"), "Telechargement avec URL CRAIG directe...")
        w2 == sent(w1, Request("GET", "", {RasterTimeout}, a.first))
        w3 == sent(label(w2, "Nouvelle tentative..."),
                   Request("GET", "", {RasterTimeout}, a.second))
        loaded(x) == IF a.valid THEN label(x, "Raster CRAIG charge") ELSE raster_failed(x)
    IN IF ~contains(rstrip(cc(w1).url, "/"), T_s) THEN raster_failed(w1)
       ELSE IF a.first = "200" THEN loaded(w2)
       ELSE IF a.first = "429"
       THEN IF a.second = "200" THEN loaded(w3) ELSE raster_failed(w3)
       ELSE raster_failed(w2)

\* load_geographic_file for a raster: QGIS reads the file itself; valid tells
\* whether the layer it makes is one
load_geographic_file(w, valid) ==
    LET w1 == called(w, "load_geographic_file") IN
    IF valid THEN label(box(w1, "information"), "Fichier charge")
    ELSE raster_failed(w1)

T_tif == <<".", "t", "i", "f">>

T_tiff == <<".", "t", "i", "f", "f">>

handle_raster_file(w, file_data, a) ==
    LET w1 == called(w, "handle_raster_file")
        base_url == lower(cc(w1).url)
        extension == lower(suffix(file_data.name))
    IN IF contains(base_url, T_s_opendata) /\ extension \in {T_tif, T_tiff}
       THEN load_craig_raster(label(w1, "Utilisation de la methode speciale CRAIG..."), a)
       ELSE IF /\ ~contains(base_url, T_s_opendata) /\ contains(base_url, T_s)
               /\ extension \in {T_tif, T_tiff, <<".", "j", "p", "g">>,
                                 <<".", "p", "n", "g">>, <<".", "j", "p", "2">>}
       THEN load_raster_file_with_download(
                label(w1, "Utilisation du telechargement local pour eviter erreur 429..."), a)
       ELSE load_geographic_file(w1, a.valid)

examine_archive(w) ==
    label(box(called(w, "examine_archive"), "information"), "Examen de l'archive")

handle_archive_file(w) == examine_archive(called(w, "handle_archive_file"))

\* item_data['handler'](item_data)
call_handler(w, item_data, answer, a) ==
    IF item_data.handler = "handle_folder" THEN handle_folder(w, item_data, answer)
    ELSE IF item_data.handler = "handle_raster_file" THEN handle_raster_file(w, item_data, a)
    ELSE handle_archive_file(w)

download_file(w, status) ==
    LET w1 == label(called(w, "download_file"), "Telechargement depuis ...")
        w2 == sent(w1, Request("GET", "", {DownloadTimeout}, status))
    IN IF status = "200" THEN box(label(w2, "Telechargement termine"), "information")
       ELSE label(box(w2, "critical"), "Erreur telechargement")

-----------------------------------------------------------------------------
(* Writing to the server: upload, new folder, saving the project *)

WriteAnswers == {"201", "404", NoAnswer}

written(status) == status \in {"200", "201", "204"}

NeedConnection(w) == ~w.session.live \/ w.current_connection = NoConnection

\* upload_file_to_webdav with one file chosen; chosen: the file dialog gave a
\* file; confirmed: the user answered Yes
\* upload_file_to_webdav, lines 3341-3354: the summary after the listing
upload_summary(w, status) ==
    IF written(status) THEN box(label(w, "Televersement termine"), "information")
    ELSE box(label(w, "Televersement partiel"), "warning")

upload_file_to_webdav(w, chosen, confirmed, status, answer) ==
    IF NeedConnection(w) THEN box(called(w, "upload_file_to_webdav"), "warning")
    ELSE IF ~chosen \/ ~confirmed THEN called(w, "upload_file_to_webdav")
    ELSE upload_summary(
             refresh_current_location(
                 sent(label(called(w, "upload_file_to_webdav"), "Televersement de ..."),
                      Request("PUT", "", {}, status)),
                 answer),
             status)

\* create_folder_on_webdav; named: the input dialog gave a name; valid: the
\* name holds only the characters allowed
create_folder_on_webdav(w, named, valid, status, answer) ==
    LET w1 == called(w, "create_folder_on_webdav")
        w2 == sent(label(w1, "Creation du dossier ..."), Request("MKCOL", "", {}, status))
    IN IF NeedConnection(w1) THEN box(w1, "warning")
       ELSE IF ~named THEN w1
       ELSE IF ~valid THEN box(w1, "warning")
       ELSE IF written(status)
       THEN refresh_current_location(label(w2, "Dossier cree"), answer)
       ELSE label(box(w2, "critical"), "Erreur")

\* _upload_file_to_webdav, lines 4170-4172
session_auth(w) ==
    IF cc(w).username # <<>>
    THEN [w EXCEPT !.session.auth = <<cc(w).username, cc(w).password>>]
    ELSE w

\* _upload_file_to_webdav, lines 4177-4182
put_answered(w, status) == IF written(status) THEN Returned(w) ELSE Raised(w)

_upload_file_to_webdav(w, status) ==
    IF ~w.session.live THEN Raised(called(w, "_upload_file_to_webdav"))
    ELSE put_answered(sent(session_auth(called(w, "_upload_file_to_webdav")),
                           Request("PUT", "", {}, status)),
                      status)

\* save_current_project_to_webdav; named: the dialogs were answered;
\* saved: QgsProject.write gave True
\* save_current_project_to_webdav: the listing and the box after the upload
project_listed(r) == IF r.raised THEN r ELSE Returned(box(r.w, "information"))

project_uploaded(u, answer) ==
    IF u.raised THEN u
    ELSE project_listed(
             refresh_webdav_content(label(u.w, "Projet enregistre sur WebDAV"), answer))

\* save_current_project_to_webdav: the try block
save_project(w, saved, status, answer) ==
    IF ~saved THEN Raised(label(w, "Preparation du projet ..."))
    ELSE project_uploaded(
             _upload_file_to_webdav(label(w, "Televersement du projet ..."), status),
             answer)

save_current_project_to_webdav(w, named, saved, status, answer) ==
    IF w.current_connection = NoConnection
    THEN box(called(w, "save_current_project_to_webdav"), "warning")
    ELSE IF ~named THEN called(w, "save_current_project_to_webdav")
    ELSE caught(save_project(called(w, "save_current_project_to_webdav"),
                             saved, status, answer),
                "Erreur")

-----------------------------------------------------------------------------
(* The context menu of the content table *)

\* the methods the entries of show_context_menu may name, with the number of
\* arguments each requires besides self; a name that is absent is not a method
\* of WebDAVDockWidget
method_parameters ==
    [handle_folder |-> 1, handle_qgis_project |-> 1, load_csv_excel_file |-> 1,
     load_python_script |-> 1, examine_archive |-> 1, download_file |-> 2,
     refresh_webdav_content |-> 0, create_folder_on_webdav |-> 0,
     upload_file_to_webdav |-> 0, save_current_layer_to_webdav |-> 0,
     save_current_project_to_webdav |-> 0]

Entry(text, target, args) == [text |-> text, target |-> target, args |-> args]

\* os.path.splitext(name)[1]: from the last dot on, unless only dots precede it
splitext(name) ==
    LET dots == {i \in 1..Len(name) : name[i] = "."} IN
    IF dots = {} THEN <<>>
    ELSE LET i == CHOOSE d \in dots : \A e \in dots : e <= d IN
         IF \E j \in 1..(i - 1) : name[j] # "." THEN SubSeq(name, i, Len(name)) ELSE <<>>

\* show_context_menu, lines 2260-2309: the entries for the selected element
item_menu(item_data) ==
    LET file_extension == lower(splitext(item_data.name)) IN
    IF item_data.is_folder
    THEN << Entry("Ouvrir", "handle_folder", 1),
            Entry("Creer un sous-dossier", "create_folder_in_subfolder", 1),
            Entry("Televerser des fichiers ici", "upload_file_to_subfolder", 1) >>
    ELSE (IF file_extension \in {<<".", "s", "h", "p">>, <<".", "g", "p", "k", "g">>, T_tif,
                                 <<".", "g", "e", "o", "j", "s", "o", "n">>,
                                 <<".", "k", "m", "l">>, <<".", "g", "m", "l">>}
          THEN <<Entry("Charger comme couche", "handle_file", 1)>>
          ELSE IF file_extension \in {<<".", "q", "g", "s">>, <<".", "q", "g", "z">>}
          THEN <<Entry("Ouvrir le projet QGIS", "handle_qgis_project", 1)>>
          ELSE IF file_extension \in {<<".", "c", "s", "v">>, <<".", "x", "l", "s">>,
                                      <<".", "x", "l", "s", "x">>}
          THEN <<Entry("Charger comme donnees", "load_csv_excel_file", 1)>>
          ELSE IF file_extension = <<".", "p", "y">>
          THEN <<Entry("Charger dans la console Python", "load_python_script", 1)>>
          ELSE IF file_extension \in {<<".", "z", "i", "p">>, <<".", "7", "z">>,
                                      <<".", "t", "a", "r">>, <<".", "g", "z">>}
          THEN <<Entry("Examiner l'archive", "examine_archive", 1)>>
          ELSE <<>>)
         \o <<Entry("Telecharger", "download_file", 1)>>

\* show_context_menu, lines 2317-2334: the entries of the empty area
empty_menu ==
    << Entry("Rafraichir", "refresh_webdav_content", 0),
       Entry("Creer un dossier", "create_folder_on_webdav", 0),
       Entry("Televerser des fichiers", "upload_file_to_webdav", 0),
       Entry("Enregistrer la couche active", "save_current_layer_to_webdav", 0),
       Entry("Enregistrer le projet QGIS", "save_current_project_to_webdav", 0) >>

\* Python can make the call an entry is connected to
callable(entry) ==
    /\ entry.target \in DOMAIN method_parameters
    /\ method_parameters[entry.target] = entry.args

\* the call fails with AttributeError or TypeError, which leaves the slot
uncallable(w, entry) == [called(w, entry.target) EXCEPT !.escaped = TRUE]

-----------------------------------------------------------------------------
(* The state after construction *)

EmptyStore == <<>>

\* the settings store after the dialog saved the profiles of inputs, in turn
RECURSIVE saved_in_turn(_, _)
saved_in_turn(store, inputs) ==
    IF inputs = <<>> THEN store
    ELSE saved_in_turn(save_connection(store, get_connection_info(Head(inputs))),
                       Tail(inputs))

NoProbe == [file_path |-> <<>>, is_collection |-> FALSE, done |-> FALSE,
            via |-> "", name |-> <<>>, file_type |-> "", handler |-> ""]

\* load_connections on an empty combo without current connection
first_loaded(store) ==
    load_connections_ui([cur |-> NoConnection, cstatus |-> NotConnected, items |-> NoItems],
                        <<>>, store, group_names(store))

\* __init__: the attributes, setup_ui, then load_connections
Constructed(store, ui) ==
    /\ settings = store
    /\ connections = load_connections_dicts(store)
    /\ connection_combo = load_connections_combo(<<>>, store)
    /\ current_connection = ui.cur
    /\ connection_status = ui.cstatus
    /\ current_items = ui.items
    /\ session = NoSession
    /\ current_mode = "webdav"
    /\ current_path = Slash
    /\ navigation_history = NoHistory
    /\ current_path_before_navigation = NoPathBefore
    /\ status_label = "Pret a explorer"
    /\ buttons = [back |-> FALSE, up |-> FALSE, refresh |-> FALSE]
    /\ dlg = "closed"
    /\ file_handlers = file_handlers_init
    /\ transfers = <<>>
    /\ ev = Ev("__init__", NoInput, <<"load_connections">>, NoRequests, <<>>, FALSE)

-----------------------------------------------------------------------------
(* The connection dialog: show_connection_dialog, accept, reject, test *)

ShowConnectionDialog ==
    /\ dlg = "closed"
    /\ dlg' = "open"
    /\ Becomes(called(Widget, "show_connection_dialog"), "show_connection_dialog", NoInput)
    /\ UNCHANGED <<probe, transfers>>

\* what the dialog holds when its test button is clicked
TestInputs == {In_plain, In_blank_name, In_blank_url}

TestAnswers == {"207", "404", NoAnswer}

\* test_connection, lines 158-180: the box for the answer
test_answered(w, status) ==
    IF status \in {"200", "207"} THEN box(w, "information")
    ELSE IF status = NoAnswer THEN box(w, "critical")
    ELSE box(w, "warning")

test_connection(w, conn_info, status) ==
    IF conn_info.name = <<>> \/ conn_info.url = <<>>
    THEN box(called(w, "test_connection"), "warning")
    ELSE test_answered(sent(called(w, "test_connection"),
                            Request("PROPFIND", "0", {ProbeTimeout}, status)),
                       status)

\* the test button of the dialog
TestConnection ==
    \E fields \in TestInputs, status \in TestAnswers :
        /\ dlg = "open"
        /\ \E end \in {test_connection(Widget, get_connection_info(fields), status)} :
               Becomes(end, "test_connection", <<fields>>)
        /\ UNCHANGED <<dlg, probe, transfers>>

\* load_connections, then connection_combo.setCurrentText(conn_info['name'])
connections_loaded(w, names, conns, ui, name) ==
    [w EXCEPT !.connections = conns,
              !.connection_combo = names,
              !.current_connection = setCurrentText(ui, conns, names, name).cur,
              !.connection_status = setCurrentText(ui, conns, names, name).cstatus,
              !.current_items = setCurrentText(ui, conns, names, name).items,
              !.calls = @ \o <<"load_connections">>]

\* show_connection_dialog, lines 2381-2387, with the store save_connection left
profile_saved(w, stored, name) ==
    connections_loaded([w EXCEPT !.settings = stored],
                       load_connections_combo(w.connection_combo, stored),
                       load_connections_dicts(stored),
                       load_connections_ui([cur |-> w.current_connection,
                                            cstatus |-> w.connection_status,
                                            items |-> w.current_items],
                                           w.connection_combo, stored, group_names(stored)),
                       name)

\* show_connection_dialog after exec_() gave Accepted
dialog_accepted(w, conn_info) ==
    profile_saved(called(called(w, "get_connection_info"), "save_connection"),
                  save_connection(w.settings, conn_info), conn_info.name)

\* accept(), then what show_connection_dialog does with the result
accept(w, conn_info) ==
    IF accept_name_ok(conn_info) /\ accept_url_ok(conn_info)
    THEN dialog_accepted(called(w, "accept"), conn_info)
    ELSE box(called(w, "accept"), "warning")

\* the OK button of the dialog
Accept ==
    \E fields \in DialogInputs :
        /\ dlg = "open"
        /\ dlg' = IF accept_name_ok(get_connection_info(fields))
                     /\ accept_url_ok(get_connection_info(fields))
                  THEN "closed" ELSE "open"
        /\ \E end \in {accept(Widget, get_connection_info(fields))} :
               Becomes(end, "accept", <<fields>>)
        /\ UNCHANGED <<probe, transfers>>

\* the Cancel button of the dialog
Reject ==
    /\ dlg = "open"
    /\ dlg' = "closed"
    /\ Becomes(called(Widget, "reject"), "reject", NoInput)
    /\ UNCHANGED <<probe, transfers>>

-----------------------------------------------------------------------------
(* The dock widget: one action per handler the user can start *)

\* the slot with the widget as a value
connection_changed(w, ui) ==
    [w EXCEPT !.current_connection = ui.cur,
              !.connection_status = ui.cstatus,
              !.current_items = ui.items]

\* connection_combo: the user picks another item
ConnectionChanged ==
    \E conn_name \in SeqToSet(connection_combo) :
        /\ dlg = "closed"
        /\ conn_name # current_connection
        /\ \E end \in {connection_changed(called(Widget, "on_connection_changed"),
                                          on_connection_changed(Ui, connections, conn_name))} :
               Becomes(end, "on_connection_changed", <<conn_name>>)
        /\ UNCHANGED <<dlg, probe, transfers>>

\* connect_btn
SmartConnect ==
    \E a \in ConnectAnswers(Widget) :
        /\ dlg = "closed"
        /\ \E end \in {smart_connect(Widget, a)} : Becomes(end, "smart_connect", NoInput)
        /\ UNCHANGED <<dlg, probe, transfers>>

\* refresh_btn
Refresh ==
    \E answer \in StepAnswers(Widget) :
        /\ dlg = "closed"
        /\ buttons.refresh
        /\ \E end \in {refresh_current_location(Widget, answer)} :
               Becomes(end, "refresh_current_location", <<current_path>>)
        /\ UNCHANGED <<dlg, probe, transfers>>

\* up_btn
NavigateUp ==
    \E answer \in StepAnswers(Widget) :
        /\ dlg = "closed"
        /\ buttons.up
        /\ \E end \in {navigate_up(Widget, answer)} :
               Becomes(end, "navigate_up", <<current_path>>)
        /\ UNCHANGED <<dlg, probe, transfers>>

\* back_btn
NavigateBack ==
    /\ dlg = "closed"
    /\ buttons.back
    /\ \E end \in {navigate_back(Widget)} : Becomes(end, "navigate_back", NoInput)
    /\ UNCHANGED <<dlg, probe, transfers>>

\* the rows of content_table: the filters are left as they start
Rows == IF current_items.exists THEN current_items.list ELSE <<>>

\* navigation_history has room for the entry that opening a folder may add
HistoryFits == Len(history_list(Widget)) < MaxHistory

\* content_table.itemDoubleClicked on a folder
OpenFolder ==
    \E i \in DOMAIN Rows, answer \in StepAnswers(Widget) :
        /\ dlg = "closed"
        /\ Rows[i].handler = "handle_folder"
        /\ HistoryFits
        /\ \E end \in {handle_folder(called(Widget, "on_item_double_clicked"),
                                     Rows[i], answer)} :
               Becomes(end, "handle_folder", <<Rows[i].name>>)
        /\ UNCHANGED <<dlg, probe, transfers>>

\* content_table.itemDoubleClicked on a file
OpenFile ==
    \E i \in DOMAIN Rows, a \in RasterAnswers :
        /\ dlg = "closed"
        /\ Rows[i].handler \in {"handle_raster_file", "handle_archive_file"}
        /\ Rows[i].handler = "handle_archive_file" => a = NoRasterAnswer
        /\ \E end \in {call_handler(called(Widget, "on_item_double_clicked"),
                                    Rows[i], NoAnswer, a)} :
               Becomes(end, Rows[i].handler, <<Rows[i].name>>)
        /\ UNCHANGED <<dlg, probe, transfers>>

\* download_selected; chosen: the save dialog gave a path
download_selected(w, chosen, status) ==
    IF chosen THEN download_file(called(w, "download_selected"), status)
    ELSE called(w, "download_selected")

\* download_btn on a selected file
DownloadSelected ==
    \E i \in DOMAIN Rows, chosen \in BOOLEAN, status \in GetAnswers :
        /\ dlg = "closed"
        /\ ~Rows[i].is_folder
        /\ ~chosen => status = NoAnswer
        /\ \E end \in {download_selected(Widget, chosen, status)} :
               Becomes(end, "download_selected", <<Rows[i].name>>)
        /\ UNCHANGED <<dlg, probe, transfers>>

\* the call the lambda of an entry makes
entry_triggered(w, entry, item_data, answer) ==
    IF ~callable(entry) THEN uncallable(w, entry)
    ELSE IF entry.target = "handle_folder" THEN handle_folder(w, item_data, answer)
    ELSE examine_archive(w)

\* show_context_menu on a selected folder, then one entry of its menu
ContextMenuFolder ==
    \E i \in DOMAIN Rows :
        \E k \in DOMAIN item_menu(Rows[i]), answer \in StepAnswers(Widget) :
            /\ dlg = "closed"
            /\ Rows[i].is_folder
            /\ item_menu(Rows[i])[k].target # "handle_folder" => answer = NoAnswer
            /\ item_menu(Rows[i])[k].target = "handle_folder" =>
                   HistoryFits /\ answer # NoAnswer
            /\ \E end \in {entry_triggered(called(Widget, "show_context_menu"),
                                           item_menu(Rows[i])[k], Rows[i], answer)} :
                   Becomes(end, item_menu(Rows[i])[k].target, <<Rows[i].name>>)
            /\ UNCHANGED <<dlg, probe, transfers>>

\* show_context_menu on a selected file, then one entry of its menu
ContextMenuFile ==
    \E i \in DOMAIN Rows :
        \E k \in DOMAIN item_menu(Rows[i]) :
            /\ dlg = "closed"
            /\ ~Rows[i].is_folder
            /\ callable(item_menu(Rows[i])[k]) =>
                   item_menu(Rows[i])[k].target = "examine_archive"
            /\ \E end \in {entry_triggered(called(Widget, "show_context_menu"),
                                           item_menu(Rows[i])[k], Rows[i], NoAnswer)} :
                   Becomes(end, item_menu(Rows[i])[k].target, <<Rows[i].name>>)
            /\ UNCHANGED <<dlg, probe, transfers>>

\* a slot connected to a signal: an exception that leaves it is not caught
slot(r) == IF r.raised THEN [r.w EXCEPT !.escaped = TRUE] ELSE r.w

\* show_context_menu off the rows: Rafraichir
MenuRefresh ==
    \E answer \in ListingAnswers("207") :
        /\ dlg = "closed"
        /\ \E end \in {slot(refresh_webdav_content(called(Widget, "show_context_menu"),
                                                   answer))} :
               Becomes(end, "refresh_webdav_content", NoInput)
        /\ UNCHANGED <<dlg, probe, transfers>>

\* what happens to a write: asked, the first dialog was answered; ok, the
\* second step went well (name valid, question answered Yes, project written);
\* status answers the PUT or MKCOL, listing the listing request after it
WriteScenarios ==
    {a \in [asked : BOOLEAN, ok : BOOLEAN, status : WriteAnswers, listing : {"ok", "404"}] :
        /\ ~a.asked => ~a.ok
        /\ ~a.ok => a.status = NoAnswer
        /\ a.status # "201" => a.listing = "ok"}

\* the answer to the listing request after a write
listing_after(w, a) == IF a.listing = "ok" THEN good_status(w.current_mode) ELSE a.listing

\* show_context_menu off the rows: Creer un dossier
MenuCreateFolder ==
    \E a \in WriteScenarios :
        /\ dlg = "closed"
        /\ \E end \in {create_folder_on_webdav(called(Widget, "show_context_menu"),
                                               a.asked, a.ok, a.status,
                                               listing_after(Widget, a))} :
               Becomes(end, "create_folder_on_webdav", <<a>>)
        /\ UNCHANGED <<dlg, probe, transfers>>

\* show_context_menu off the rows: Televerser des fichiers
MenuUpload ==
    \E a \in WriteScenarios :
        /\ dlg = "closed"
        /\ \E end \in {upload_file_to_webdav(called(Widget, "show_context_menu"),
                                             a.asked, a.ok, a.status,
                                             listing_after(Widget, a))} :
               Becomes(end, "upload_file_to_webdav", <<a>>)
        /\ UNCHANGED <<dlg, probe, transfers>>

\* save_project_btn
SaveProject ==
    \E a \in WriteScenarios :
        /\ dlg = "closed"
        /\ \E end \in {save_current_project_to_webdav(Widget, a.asked, a.ok, a.status,
                           IF a.listing = "ok" THEN "207" ELSE a.listing)} :
               Becomes(end, "save_current_project_to_webdav", <<a>>)
        /\ UNCHANGED <<dlg, probe, transfers>>

-----------------------------------------------------------------------------
(* Browsing: connecting, and moving through the folders of the server *)

StoredProfiles == {<<In_plain, In_share>>, <<In_web, In_nested>>}

Init ==
    /\ \E inputs \in StoredProfiles :
           \E store \in {saved_in_turn(EmptyStore, inputs)} :
               Constructed(store, first_loaded(store))
    /\ probe = NoProbe

Next ==
    \/ ConnectionChanged
    \/ SmartConnect
    \/ Refresh
    \/ NavigateUp
    \/ NavigateBack
    \/ OpenFolder
    \/ ContextMenuFolder

Spec == Init /\ [][Next]_vars

-----------------------------------------------------------------------------
(* Files: opening and downloading what is listed, and writing to the server *)

StoredForFiles == {<<In_share>>, <<In_craig>>, <<In_nested>>}

InitFiles ==
    /\ \E inputs \in StoredForFiles :
           \E store \in {saved_in_turn(EmptyStore, inputs)} :
               Constructed(store, first_loaded(store))
    /\ probe = NoProbe

NextFiles ==
    \/ SmartConnect
    \/ OpenFile
    \/ DownloadSelected
    \/ ContextMenuFile
    \/ MenuRefresh
    \/ MenuCreateFolder
    \/ MenuUpload
    \/ SaveProject

SpecFiles == InitFiles /\ [][NextFiles]_vars

-----------------------------------------------------------------------------
(* Profiles: the dialog, the settings store, and connecting *)

StoredBefore == {<<>>, <<In_plain>>}

InitProfiles ==
    /\ \E inputs \in StoredBefore :
           \E store \in {saved_in_turn(EmptyStore, inputs)} :
               Constructed(store, first_loaded(store))
    /\ probe = NoProbe

NextProfiles ==
    \/ ShowConnectionDialog
    \/ TestConnection
    \/ Accept
    \/ Reject
    \/ ConnectionChanged
    \/ SmartConnect

SpecProfiles == InitProfiles /\ [][NextProfiles]_vars

-----------------------------------------------------------------------------
(* The lookup of type and handler, applied to names of every kind *)

\* names an entry of a listing may have: one for each row of the table, then
\* names without extension, with an unknown one, with several, in upper case
LookupNames ==
    {<<"x", ".", "t", "i", "f">>,
     <<"x", ".", "t", "i", "f", "f">>,
     <<"x", ".", "e", "c", "w">>,
     <<"x", ".", "j", "p", "2">>,
     <<"x", ".", "s", "h", "p">>,
     <<"x", ".", "g", "p", "k", "g">>,
     <<"x", ".", "s", "q", "l", "i", "t", "e">>,
     <<"x", ".", "g", "e", "o", "j", "s", "o", "n">>,
     <<"x", ".", "k", "m", "l">>,
     <<"x", ".", "z", "i", "p">>,
     <<"x", ".", "t", "a", "r">>,
     <<"x", ".", "g", "z">>,
     <<"x", ".", "q", "g", "s">>,
     <<"x", ".", "q", "g", "z">>,
     <<"x", ".", "x", "m", "l">>,
     <<"x", ".", "j", "s", "o", "n">>,
     <<"x", ".", "h", "t", "m", "l">>,
     <<"x", ".", "a", "b", "c">>,
     <<"x">>,
     <<"x", ".">>,
     <<".", "t", "i", "f">>,
     <<"y", ".", "z", ".", "Z", "I", "P">>,
     <<"x", ".", "T", "I", "F">>,
     <<"x", ".", "T", "a", "r", ".", "G", "Z">>,
     <<"x", ".", "t", "i", "f", ".", "b", "a", "k">>,
     <<"a", ".", "b">>}

T_lookup_base == <<"h", "t", "t", "p", ":", "/", "/", "h">>

Probed(file_path, is_collection) ==
    [NoProbe EXCEPT !.file_path = file_path, !.is_collection = is_collection]

InitLookup ==
    /\ \E store \in {saved_in_turn(EmptyStore, <<In_plain>>)} :
           Constructed(store, first_loaded(store))
    /\ \E name \in LookupNames, is_collection \in BOOLEAN :
           probe = Probed(Slash \o name \o (IF is_collection THEN Slash ELSE <<>>),
                          is_collection)

\* what the lookup gave for the entry probed
Looked(item, via) ==
    [probe EXCEPT !.done = TRUE, !.via = via, !.name = item.name,
                  !.file_type = item.file_type, !.handler = item.handler]

\* extract_item_info on the entry probed
LookupWebdav ==
    /\ ~probe.done
    /\ probe' = Looked(extract_item_info(file_handlers, probe.file_path,
                                         probe.is_collection, T_lookup_base), "webdav")
    /\ UNCHANGED <<settings, connections, connection_combo, current_connection, session,
                   current_mode, current_path, current_items, navigation_history,
                   current_path_before_navigation, status_label, connection_status,
                   buttons, dlg, file_handlers, transfers, ev>>

\* create_html_item on the entry probed
LookupHtml ==
    /\ ~probe.done
    /\ probe' = Looked(create_html_item(file_handlers, item_name(probe.file_path),
                                        T_lookup_base \o probe.file_path,
                                        probe.is_collection), "html")
    /\ UNCHANGED <<settings, connections, connection_combo, current_connection, session,
                   current_mode, current_path, current_items, navigation_history,
                   current_path_before_navigation, status_label, connection_status,
                   buttons, dlg, file_handlers, transfers, ev>>

NextLookup ==
    \/ LookupWebdav
    \/ LookupHtml
    \/ SmartConnect
    \/ Refresh

SpecLookup == InitLookup /\ [][NextLookup]_vars

-----------------------------------------------------------------------------
(* Connecting: smart_connect on profiles of every kind, the probes answered *)
(* in every way                                                             *)

\* what a server may answer to the probes and to the first listing request of
\* a run of smart_connect on a url; shared: the url is one of a shared link.
\* A probe that is not sent has no answer, and so has the listing request
\* when no probe succeeds
ProbeAnswers(shared) ==
    {a \in [p1 : {"200", "207", "404", NoAnswer}, p2 : GetAnswers, p3 : GetAnswers,
            html : BOOLEAN, listing : {"ok", "404"}] :
        /\ (a.p1 \in {"200", "207"} \/ ~shared) => a.p2 = NoAnswer
        /\ (a.p1 \in {"200", "207"} \/ a.p2 = "200") => a.p3 = NoAnswer
        /\ a.p3 # "200" => ~a.html
        /\ (a.p1 \notin {"200", "207"} /\ a.p2 # "200" /\ a.p3 # "200") => a.listing = "404"}

StoredForConnecting ==
    {<<In_plain>>, <<In_nextcloud>>, <<In_craig>>, <<In_share>>, <<In_web, In_nested>>}

InitConnect ==
    /\ \E inputs \in StoredForConnecting :
           \E store \in {saved_in_turn(EmptyStore, inputs)} :
               Constructed(store, first_loaded(store))
    /\ probe = NoProbe

\* connect_btn, the probes answered as a
SmartConnectProbed ==
    \E a \in ProbeAnswers(current_connection # NoConnection
                          /\ is_shared_link(normalised_url(cc(Widget).url))) :
        /\ dlg = "closed"
        /\ \E end \in {smart_connect(Widget, a)} : Becomes(end, "smart_connect", <<a>>)
        /\ UNCHANGED <<dlg, probe, transfers>>

NextConnect ==
    \/ ConnectionChanged
    \/ SmartConnectProbed

SpecConnect == InitConnect /\ [][NextConnect]_vars

-----------------------------------------------------------------------------
(* Properties of the profiles (SpecProfiles) *)

\* the handler that ran last went through method
went_through(method) == \E i \in DOMAIN ev.calls : ev.calls[i] = method

\* the handler that ran last showed a box of this kind
showed(kind) == \E i \in DOMAIN ev.modals : ev.modals[i] = kind

\* C1: the widget holds at most one profile per name: the combo box lists each
\* name of the store once and no other, the dict has one entry per name, and a
\* profile saved under a name that exists replaces the fields stored under it.
C1_OneProfilePerName ==
    /\ NoDuplicates(connection_combo)
    /\ SeqToSet(connection_combo) = childGroups(settings)
    /\ DOMAIN connections = childGroups(settings)
    /\ (ev.op = "accept" /\ went_through("save_connection")) =>
           settings[beginGroup(get_connection_info(ev.input[1]).name)]
               = get_connection_info(ev.input[1])

\* a profile was saved under a name that another profile beside it keeps
C1_Replaced ==
    /\ ev.op = "accept"
    /\ ev.input = <<In_nextcloud>>
    /\ went_through("save_connection")
    /\ Len(connection_combo) = 2
    /\ connections[<<"a">>].url = get_connection_info(In_nextcloud).url

\* what accept() asks of the fields: a name and a url are left once blanks,
\* and the slashes that end the url, are taken away
C2_filled(fields) ==
    /\ \E i \in DOMAIN fields.name : fields.name[i] # " "
    /\ \E i \in DOMAIN fields.url : fields.url[i] \notin {" ", "/"}

\* C2: every profile in the store has a name and a url that are not empty;
\* accept() closes the dialog and has the profile saved only when name and url
\* are filled, and otherwise shows one warning, saves nothing and leaves the
\* dialog open.
C2_SavedProfilesComplete ==
    /\ \A g \in DOMAIN settings : settings[g].name # <<>> /\ settings[g].url # <<>>
    /\ ev.op = "accept" =>
           IF C2_filled(ev.input[1])
           THEN dlg = "closed" /\ went_through("save_connection") /\ ev.modals = <<>>
           ELSE dlg = "open" /\ ~went_through("save_connection") /\ ev.modals = <<"warning">>

\* accept() refused a profile whose url holds only a slash
C2_Refused ==
    /\ ev.op = "accept"
    /\ ev.input = <<In_blank_url>>
    /\ dlg = "open"
    /\ ev.modals = <<"warning">>

\* C3: save followed by load is a round trip: the profile the dialog gave is,
\* after save_connection and load_connections, in self.connections under its
\* name with the same url, username, password and root_path.
C3_RoundTrip ==
    (ev.op = "accept" /\ went_through("save_connection")) =>
        /\ get_connection_info(ev.input[1]).name \in DOMAIN connections
        /\ \A key \in {"name", "url", "username", "password", "root_path"} :
               connections[get_connection_info(ev.input[1]).name][key]
                   = get_connection_info(ev.input[1])[key]

\* C4: the settings store changes only when the dialog is accepted, and then
\* to what save_connection makes of the dialog's values: connecting, which
\* rewrites the url of the current profile and may add webdav_url, share_info
\* and the user 'opendata' to it, leaves the store as it is.
C4_OnlyTheDialogWrites ==
    [][settings' # settings =>
           /\ ev'.op = "accept"
           /\ settings' = save_connection(settings, get_connection_info(ev'.input[1]))]_vars

\* connecting gave the current profile the user 'opendata' and a webdav_url,
\* and the store holds the profile without them
C4_ProfileChangedStoreNot ==
    /\ ev.op = "smart_connect"
    /\ current_connection # NoConnection
    /\ beginGroup(current_connection) \in DOMAIN settings
    /\ connections[current_connection].username = T_opendata
    /\ connections[current_connection].has_webdav_url
    /\ settings[beginGroup(current_connection)].username = <<>>

-----------------------------------------------------------------------------
(* Properties of the files (SpecFiles) *)

\* the handler that ran last downloaded a raster
C5_downloaded ==
    /\ ev.op = "handle_raster_file"
    /\ went_through("load_raster_file_with_download") \/ went_through("load_craig_raster")

\* the download ended as a failure: an error box, and the error in the status
C5_failed == showed("critical") /\ status_label = "Erreur"

\* C5: a download of a raster sends at most two requests, all of them GET; it
\* sends the second when, and only when, the first was answered 429; a first
\* answer that is neither 200 nor 429 fails the download at once, and a second
\* answer other than 200 fails it.
C5_AtMostOneRetry ==
    C5_downloaded =>
        /\ Len(ev.reqs) <= 2
        /\ \A i \in DOMAIN ev.reqs : ev.reqs[i].method = "GET"
        /\ Len(ev.reqs) = 2 <=> (ev.reqs # <<>> /\ ev.reqs[1].status = "429")
        /\ (ev.reqs # <<>> /\ ev.reqs[1].status \notin {"200", "429"}) => C5_failed
        /\ (Len(ev.reqs) = 2 /\ ev.reqs[2].status # "200") => C5_failed

\* the download of a shared link was answered 429, then 200, and the raster
\* was loaded
C5_RetriedOnce ==
    /\ ev.op = "handle_raster_file"
    /\ went_through("load_raster_file_with_download")
    /\ Len(ev.reqs) = 2
    /\ ev.reqs[1].status = "429"
    /\ ev.reqs[2].status = "200"
    /\ status_label = "Raster charge"

\* C6: no exception leaves the handler of a user action; what the context menu
\* calls exists and gets its arguments.
C6_NothingLeavesTheHandler == ~ev.escaped

\* C10: every request sent carries a timeout.
C10_EveryRequestHasATimeout ==
    \A i \in DOMAIN ev.reqs : ev.reqs[i].timeout # {}

-----------------------------------------------------------------------------
(* Properties of the navigation (Spec) *)

\* the handler that ran last was a navigation step: a refresh, a folder opened,
\* or the way up from a path that is not the root
C7_step ==
    \/ ev.op \in {"refresh_current_location", "handle_folder"}
    \/ ev.op = "navigate_up" /\ ev.input # <<Slash>>

C7_listed_mode == current_mode \in {"webdav", "nextcloud_share", "http_html"}

\* the request of the mode: PROPFIND with Depth 1, or GET for pages
C7_of_the_mode(request) ==
    IF current_mode = "http_html" THEN request.method = "GET"
    ELSE request.method = "PROPFIND" /\ request.depth = "1"

C8_step ==
    ev.op \in {"refresh_current_location", "handle_folder", "navigate_up", "navigate_back"}

\* the last request of the handler was answered by a listing
C8_answered ==
    /\ ev.reqs # <<>>
    /\ ev.reqs[Len(ev.reqs)].status = good_status(current_mode)

\* the listing of the folder at current_path, parsed as the mode parses it
C8_listing ==
    IF current_mode = "http_html"
    THEN parse_html_response(file_handlers, html_links(current_path), html_folder_url(Widget))
    ELSE parse_webdav_response(file_handlers, multistatus(current_path),
                               connections[current_connection].url, current_path)

\* C8 as the specification states it: the listing shown after a navigation
\* step was parsed from a response fetched during that step, and changing the
\* connection discards the listing.
C8_ListingFetchedInStep ==
    /\ (C8_step /\ current_items.exists) => C8_answered
    /\ ev.op = "on_connection_changed" => ~current_items.exists

\* C8, amended: a refresh, a folder opened or the way up shows the listing
\* parsed from the response of that step when the request was answered by a
\* listing, and leaves the listing as it was when it was not; navigate_back
\* sends nothing and shows the listing the history kept; changing the
\* connection discards the listing.
C8_ListingFetchedOrKept ==
    /\ []((ev.op \in {"refresh_current_location", "handle_folder", "navigate_up"}
           /\ C7_listed_mode /\ C8_answered)
          => current_items = Items(C8_listing))
    /\ [](ev.op = "on_connection_changed" => ~current_items.exists)
    /\ [][(ev'.op \in {"refresh_current_location", "handle_folder", "navigate_up"}
           /\ (ev'.reqs = <<>> \/ ev'.reqs[Len(ev'.reqs)].status # good_status(current_mode')))
          => current_items' = current_items]_vars
    /\ [][(ev'.op = "navigate_back" /\ history_list(Widget) # <<>>)
          => /\ ev'.reqs = <<>>
             /\ current_items' = Items(last(history_list(Widget)).items)]_vars

\* navigate_back showed a listing of the history without a request
C8_BackShowedKept ==
    /\ ev.op = "navigate_back"
    /\ ev.reqs = <<>>
    /\ current_items.exists
    /\ current_items.list # <<>>
    /\ status_label = "Retour effectue"

-----------------------------------------------------------------------------
(* Properties of the lookup (SpecLookup) *)

\* the last extension of a name, in lower case: what follows its last dot, the
\* dot included, when that dot is neither the first nor the last character
C9_extension(name) ==
    IF \A i \in DOMAIN name : name[i] # "." THEN <<>>
    ELSE IF greatest({i \in DOMAIN name : name[i] = "."}) \in {1, Len(name)} THEN <<>>
    ELSE lower(SubSeq(name, greatest({i \in DOMAIN name : name[i] = "."}), Len(name)))

\* the rows of the table of __init__ for an extension
C9_rows(ext) == {i \in DOMAIN file_handlers_init : file_handlers_init[i].ext = ext}

\* type and handler are those of a folder, of the row of the extension, or
\* 'unknown' and the generic handler
C9_looked_up(name, is_folder, file_type, handler) ==
    IF is_folder THEN file_type = "folder" /\ handler = "handle_folder"
    ELSE IF C9_rows(C9_extension(name)) = {}
    THEN file_type = "unknown" /\ handler = "handle_generic_file"
    ELSE \A i \in C9_rows(C9_extension(name)) :
             file_type = file_handlers_init[i].type /\ handler = file_handlers_init[i].handler

-----------------------------------------------------------------------------
(* Properties of the session and of the locations (Spec) *)

\* C11: outside smart_connect, every request goes through a session that was
\* built from the profile that is selected, and the handler that runs right
\* after the selection changed sends nothing unless it is smart_connect.
C11_RequestsOnlyThroughOwnSession ==
    /\ []((ev.op # "smart_connect" /\ ev.reqs # <<>>) => session.owner = current_connection)
    /\ [][(ev.op = "on_connection_changed" /\ ev'.op # "smart_connect")
          => ev'.reqs = <<>>]_vars

\* the path with its last segment removed: '/' when one segment or none is left
C12_parent(segments) ==
    IF Len(segments) <= 1 THEN Slash
    ELSE Slash \o join(SubSeq(segments, 1, Len(segments) - 1), Slash) \o Slash

\* C12: navigate_up at '/' does nothing; from any other path, in webdav or
\* http_html mode, it makes the current path the path without its last
\* segment, which is '/' for a top-level folder.
C12_UpIsTheParent ==
    ev.op = "navigate_up" =>
        IF ev.input = <<Slash>>
        THEN current_path = Slash /\ ev.reqs = <<>>
        ELSE current_mode \in {"webdav", "http_html"} =>
                 current_path = C12_parent(nonEmpty(split(ev.input[1], Slash)))

\* C13: a folder opened with navigate_to_path leaves on top of the history
\* the mode, the path and the listing of the location it was opened from, and
\* navigate_back makes the top of the history the current mode, path and
\* listing: navigate_back after a folder was opened returns to where it was
\* opened from.
C13_BackReturnsToPrevious ==
    /\ [][(/\ ev'.op = "handle_folder"
           /\ \E i \in DOMAIN ev'.calls : ev'.calls[i] = "navigate_to_path"
           /\ status_label' # "Erreur ouverture dossier")
          => /\ navigation_history'.exists
             /\ navigation_history'.list # <<>>
             /\ last(navigation_history'.list).mode = current_mode
             /\ last(navigation_history'.list).path = current_path
             /\ last(navigation_history'.list).items = Rows]_vars
    /\ [][(ev'.op = "navigate_back" /\ history_list(Widget) # <<>>)
          => /\ current_mode' = last(history_list(Widget)).mode
             /\ current_path' = last(history_list(Widget)).path
             /\ current_items' = Items(last(history_list(Widget)).items)]_vars

\* C14: in webdav and nextcloud_share mode the current path begins with '/'.
C14_PathBeginsWithSlash ==
    current_mode \in {"webdav", "nextcloud_share"} => startswith(current_path, Slash)

\* C19: when the listing request of a folder that is opened is answered by
\* another status than 207, or by none, the current path stays the one whose
\* listing is displayed.
C19_FailedOpenKeepsThePath ==
    [][(/\ ev'.op = "handle_folder"
        /\ current_mode' \in {"webdav", "nextcloud_share"}
        /\ ev'.reqs # <<>>
        /\ ev'.reqs[Len(ev'.reqs)].status # "207")
       => current_path' = current_path]_vars

\* C20: once a connection is established for the profile that is selected
\* (the session is its own, and the connection status, which selecting a
\* profile resets, says connected), what navigate_back restores was recorded
\* while that profile was the selected one.
C20_BackStaysInTheConnection ==
    [][(/\ ev'.op = "navigate_back"
        /\ history_list(Widget) # <<>>
        /\ session.owner = current_connection
        /\ connection_status # NotConnected)
       => last(history_list(Widget)).recorded_for = current_connection]_vars

-----------------------------------------------------------------------------
(* Properties of connecting (SpecConnect) *)

\* the probes the run of smart_connect sent: its requests with the timeout of
\* a probe, in the order sent
C15_is_probe(request) == request.timeout = {ProbeTimeout}

C15_probes == SelectSeq(ev.reqs, C15_is_probe)

\* the url smart_connect probed
C15_url == connections[current_connection].url

\* the plain GET probe was the n-th probe and the last, and decided the mode
C15_get_decides(n) ==
    /\ C15_probes[n].method = "GET"
    /\ C15_probes[n].status = "200" =>
           /\ Len(C15_probes) = n
           /\ current_mode = IF contains(lower(C15_url), T_craig) THEN "webdav"
                             ELSE IF ev.input[1].html THEN "http_html"
                             ELSE "http_direct"

\* C15: smart_connect probes in a fixed order and the first success decides
\* the mode: the first probe is a PROPFIND with Depth 0, and answered 200 or
\* 207 it gives 'webdav' and is the only probe; otherwise the next probe of a
\* url that holds '/s/' is a GET, and answered 200 it gives 'nextcloud_share'
\* and is the last probe; otherwise the next probe is a GET, and answered 200
\* it gives 'webdav' for a craig.fr url, 'http_html' when the content type
\* holds 'html', 'http_direct' in every other case.
C15_FirstSuccessDecides ==
    (ev.op = "smart_connect" /\ current_connection # NoConnection) =>
        /\ Len(C15_probes) \in 1..3
        /\ C15_probes[1].method = "PROPFIND" /\ C15_probes[1].depth = "0"
        /\ IF C15_probes[1].status \in {"200", "207"}
           THEN Len(C15_probes) = 1 /\ current_mode = "webdav"
           ELSE IF contains(lower(C15_url), T_s)
           THEN /\ C15_probes[2].method = "GET"
                /\ IF C15_probes[2].status = "200"
                   THEN Len(C15_probes) = 2 /\ current_mode = "nextcloud_share"
                   ELSE Len(C15_probes) = 3 /\ C15_get_decides(3)
           ELSE Len(C15_probes) = 2 /\ C15_get_decides(2)

\* the PROPFIND probe was refused and the GET probe answered 200 with a
\* content type that is not html: 'http_direct'
C15_DirectDetected ==
    /\ ev.op = "smart_connect"
    /\ Len(C15_probes) = 2
    /\ C15_probes[1].status = "404"
    /\ C15_probes[2].status = "200"
    /\ ~ev.input[1].html
    /\ current_mode = "http_direct"

\* no probe of the run was answered with success
C16_every_probe_failed ==
    /\ ev.op = "smart_connect"
    /\ current_connection # NoConnection
    /\ \A i \in DOMAIN C15_probes :
           C15_probes[i].status \notin (IF C15_probes[i].method = "PROPFIND"
                                        THEN {"200", "207"} ELSE {"200"})

\* C16: when every probe of smart_connect fails the attempt fails: the error
\* is shown in a modal box, the status label reads 'Echec de connexion',
\* finalize_connection is not called and the connection status does not say
\* connected.
C16_NoProbeNoConnection ==
    C16_every_probe_failed =>
        /\ showed("critical")
        /\ status_label = "Echec de connexion"
        /\ ~went_through("finalize_connection")
        /\ connection_status = NotConnected

\* C17: every mode smart_connect finalises a connection with is one that
\* refresh_current_location lists.
C17_FinalisedModeIsListed ==
    (ev.op = "smart_connect" /\ went_through("finalize_connection")) =>
        current_mode \in {"webdav", "nextcloud_share", "http_html", "geopackage"}

\* the run of smart_connect ended with the box of the connection error
C18_failed == ev.op = "smart_connect" /\ status_label = "Echec de connexion"

\* C18: a smart_connect that fails leaves the session, the mode, the path and
\* the url of the selected profile as they were.
C18_FailedConnectChangesNothing ==
    [][C18_failed' =>
           /\ session' = session
           /\ current_mode' = current_mode
           /\ current_path' = current_path
           /\ connections'[current_connection'].url = connections[current_connection].url]_vars

-----------------------------------------------------------------------------
(* The cleaning of urls and paths, applied to texts of every kind *)

\* how many pieces follow the head of a text
MaxPieces == 3

T_url_h == <<"h", "t", "t", "p", ":", "/", "/", "h">>

T_url_one_slash == <<"h", "t", "t", "p", ":", "/", "h">>

T_url_craig == <<"h", "t", "t", "p", "s", ":", "/", "/", "c", "r", "a", "i", "g", ".", "f", "r", "/", "s", "/", "o", "p", "e", "n", "d", "a", "t", "a">>

T_dav == <<"/", "r", "e", "m", "o", "t", "e", ".", "p", "h", "p", "/", "d", "a", "v">>

T_x == <<"/", "x">>

\* a url begins with a protocol and a host, with a protocol written with one
\* slash, or with a protocol alone
UrlHeads == {T_url_h, T_url_one_slash, T_url_craig, T_http_2}

\* what the path of a url is made of
UrlPieces == {T_public_webdav, T_dav, Slash, T_x}

RECURSIVE Texts(_, _, _)
\* the texts that begin with one of heads, followed by at most n of pieces
Texts(heads, pieces, n) ==
    IF n = 0 THEN heads
    ELSE heads \cup Texts({h \o p : h \in heads, p \in pieces}, pieces, n - 1)

\* the function to apply, its argument and the url of the connection, then
\* what it returned
Applying(fn, input, conn_url) ==
    [fn |-> fn, input |-> input, conn_url |-> conn_url, done |-> FALSE, result |-> <<>>]

Applied(result) == [probe EXCEPT !.done = TRUE, !.result = result]

InitSanitize ==
    \E url \in Texts(UrlHeads, UrlPieces, MaxPieces) :
        probe = Applying("sanitize_webdav_url", url, <<>>)

SanitizeWebdavUrl ==
    /\ probe.fn = "sanitize_webdav_url"
    /\ ~probe.done
    /\ probe' = Applied(sanitize_webdav_url(probe.input))
    /\ UNCHANGED <<settings, connections, connection_combo, current_connection, session,
                   current_mode, current_path, current_items, navigation_history,
                   current_path_before_navigation, status_label, connection_status,
                   buttons, dlg, file_handlers, transfers, ev>>

T_files_u == <<"/", "r", "e", "m", "o", "t", "e", ".", "p", "h", "p", "/", "d", "a", "v", "/", "f", "i", "l", "e", "s", "/", "u">>

\* the url of the connection: with protocol and host, without them, empty as
\* load_connections reads it from a group that holds no url
ConnUrls == {T_url_h, T_x, <<>>}

\* a path is empty, or begins with the url of the connection or with a name
PathHeads == {<<>>, T_url_h, <<"x">>}

\* what a path is made of
PathPieces == {T_files_u, T_public_webdav, T_x, Slash}

InitClean ==
    \E path \in Texts(PathHeads, PathPieces, MaxPieces), conn_url \in ConnUrls :
        probe = Applying("clean_nextcloud_path", path, conn_url)

CleanNextcloudPath ==
    /\ probe.fn = "clean_nextcloud_path"
    /\ ~probe.done
    /\ probe' = Applied(clean_nextcloud_path(probe.input, probe.conn_url))
    /\ UNCHANGED <<settings, connections, connection_combo, current_connection, session,
                   current_mode, current_path, current_items, navigation_history,
                   current_path_before_navigation, status_label, connection_status,
                   buttons, dlg, file_handlers, transfers, ev>>

InitText ==
    /\ \E store \in {saved_in_turn(EmptyStore, <<In_plain>>)} :
           Constructed(store, first_loaded(store))
    /\ (InitSanitize \/ InitClean)

NextText ==
    \/ SanitizeWebdavUrl
    \/ CleanNextcloudPath

SpecText == InitText /\ [][NextText]_vars


-----------------------------------------------------------------------------
(* Properties of the cleaning of urls and paths (SpecText) *)

\* what follows the '://' of the protocol
after_scheme(url) == split_once(url, T_scheme)[2]

\* C21: for every url with a host, what sanitize_webdav_url returns holds
\* neither 'public.php/webdav/public.php/webdav' nor
\* 'remote.php/dav/remote.php/dav', however often the segment was repeated in
\* the url, and holds no '//' after the '://' of the protocol
C21_DuplicationsRemoved ==
    (/\ probe.fn = "sanitize_webdav_url" /\ probe.done
     /\ has_host(sanitize_protocol(probe.input))) =>
        /\ ~contains(probe.result, T_public_twice)
        /\ ~contains(probe.result, T_remote_twice)
        /\ ~contains(after_scheme(probe.result), T_double_slash)


\* clean_nextcloud_path was applied with a connection url that is not empty
C22_cleaned == probe.fn = "clean_nextcloud_path" /\ probe.done /\ probe.conn_url # <<>>

\* what follows the connection url in the path, with '/' in front
C22_relative_part ==
    with_leading_slash(SubSeq(probe.input, Len(probe.conn_url) + 1, Len(probe.input)))

\* C22 as the spec states it: for every path and every connection url that is
\* not empty, clean_nextcloud_path returns a path that begins with '/': '/'
\* for an empty path or a path equal to the connection url, and the relative
\* part when the path begins with the connection url
C22_RelativePartReturned ==
    C22_cleaned =>
        /\ startswith(probe.result, Slash)
        /\ (probe.input = <<>> \/ probe.input = probe.conn_url) => probe.result = Slash
        /\ (startswith(probe.input, probe.conn_url) /\ probe.input # probe.conn_url) =>
               probe.result = C22_relative_part

\* no segment is repeated in path and path does not begin with the connection
\* url again: clean_nextcloud_path has nothing to remove from it
C22_nothing_repeated(path) ==
    /\ ~startswith(path, probe.conn_url)
    /\ matching_patterns(path) = {}
    /\ repeated_segments(path) = {}

\* C22, amended: for every path and every connection url that is not empty,
\* clean_nextcloud_path returns a path that begins with '/' and whose rest ends
\* the path it was given: '/' for an empty path or a path equal to the
\* connection url; when the path begins with the connection url, the relative
\* part cleaned again, which is the relative part itself when no segment is
\* repeated in it
C22_RelativePartCleaned ==
    C22_cleaned =>
        /\ startswith(probe.result, Slash)
        /\ endswith(probe.input, Tail(probe.result))
        /\ (probe.input = <<>> \/ probe.input = probe.conn_url) => probe.result = Slash
        /\ (startswith(probe.input, probe.conn_url) /\ probe.input # probe.conn_url) =>
               /\ probe.result = clean_nextcloud_path(C22_relative_part, probe.conn_url)
               /\ C22_nothing_repeated(C22_relative_part) => probe.result = C22_relative_part

\* a path that begins with the connection url and repeats a segment after it
\* was cleaned to less than its relative part
C22_RepeatedSegmentRemoved ==
    /\ C22_cleaned
    /\ startswith(probe.input, probe.conn_url)
    /\ ~startswith(C22_relative_part, probe.conn_url)
    /\ repeated_segments(C22_relative_part) # {}
    /\ probe.result # C22_relative_part
    /\ probe.result # Slash


-----------------------------------------------------------------------------
(* Transfers: the downloads and the upload call QApplication.processEvents() *)
(* in their loop, which runs the handlers of the events that wait            *)

\* how many transfers may stand at processEvents(), one inside the other
MaxNested == 2

\* a transfer that stands at processEvents(): the method, what the widget held
\* when it was called, and what its remaining steps need (valid: QgsRasterLayer
\* accepts the file; status: the answer to the PUT)
Transfer(op, w, valid, status) ==
    [op |-> op, session |-> w.session, current_connection |-> w.current_connection,
     current_path |-> w.current_path, valid |-> valid, status |-> status]

\* the handler started runs up to processEvents() and stands there
Stands(w, op, input, transfer) ==
    /\ Becomes(w, op, input)
    /\ transfers' = Append(transfers, transfer)
    /\ UNCHANGED <<dlg, probe>>

\* processEvents() returns to the inmost transfer, which runs to its end
Resumes(w, op) ==
    /\ Becomes(w, op, NoInput)
    /\ transfers' = SubSeq(transfers, 1, Len(transfers) - 1)
    /\ UNCHANGED <<dlg, probe>>

\* a handler may be started: by the event loop of the application, or by
\* processEvents() within a transfer
MayStart == dlg = "closed" /\ Len(transfers) < MaxNested

\* download_file, lines 2184-2228: up to the loop over the chunks
download_requested(w) ==
    sent(label(called(w, "download_file"), "Telechargement depuis ..."),
         Request("GET", "", {DownloadTimeout}, "200"))

\* download_file, lines 2230-2235: after the loop
download_written(w) == box(label(w, "Telechargement termine"), "information")

\* download_btn on a selected file, the save dialog answered, the GET
\* answered 200 with a body of one chunk at least
DownloadStarts ==
    \E i \in DOMAIN Rows :
        /\ MayStart
        /\ ~Rows[i].is_folder
        /\ session.live
        /\ Stands(download_requested(called(Widget, "download_selected")),
                  "download_selected", <<Rows[i].name>>,
                  Transfer("download_file", Widget, FALSE, NoAnswer))

DownloadEnds ==
    /\ transfers # <<>>
    /\ last(transfers).op = "download_file"
    /\ Resumes(download_written(Widget), "download_file")

\* handle_raster_file, lines 1099-1119: the method that downloads the raster
\* before it loads it, "" when QGIS reads it from the server
raster_method(w, file_data) ==
    IF /\ contains(lower(cc(w).url), T_s_opendata)
       /\ lower(suffix(file_data.name)) \in {T_tif, T_tiff}
    THEN "load_craig_raster"
    ELSE IF /\ ~contains(lower(cc(w).url), T_s_opendata) /\ contains(lower(cc(w).url), T_s)
            /\ lower(suffix(file_data.name)) \in {T_tif, T_tiff, <<".", "j", "p", "g">>,
                                                   <<".", "p", "n", "g">>, <<".", "j", "p", "2">>}
    THEN "load_raster_file_with_download"
    ELSE ""

\* load_raster_file_with_download, lines 4327-4411, and load_craig_raster,
\* lines 4547-4700: up to the loop over the chunks, the GET answered 200 at
\* once (again FALSE) or after one 429
\* the texts the two methods show: before the GET, before the second GET, at
\* the end; the response has no content-length, so that the loop shows none
raster_texts(method) ==
    IF method = "load_craig_raster"
    THEN <<"Telechargement avec URL CRAIG directe...", "Nouvelle tentative...",
           "Raster CRAIG charge">>
    ELSE <<"Telechargement depuis ...", "Nouvelle tentative de telechargement...",
           "Raster charge">>

raster_requested(w, method, again) ==
    IF again
    THEN sent(label(sent(label(called(w, method), raster_texts(method)[1]),
                         Request("GET", "", {RasterTimeout}, "429")),
                    raster_texts(method)[2]),
              Request("GET", "", {RasterTimeout}, "200"))
    ELSE sent(label(called(w, method), raster_texts(method)[1]),
              Request("GET", "", {RasterTimeout}, "200"))

\* load_raster_file_with_download, lines 4413-4454, and load_craig_raster,
\* lines 4702-4730: after the loop
raster_loaded(w, method, valid) ==
    IF valid THEN label(w, raster_texts(method)[3]) ELSE raster_failed(w)

\* content_table.itemDoubleClicked on a raster that is downloaded first
RasterStarts ==
    \E i \in DOMAIN Rows, again \in BOOLEAN, valid \in BOOLEAN :
        /\ MayStart
        /\ Rows[i].handler = "handle_raster_file"
        /\ session.live
        /\ raster_method(Widget, Rows[i]) # ""
        /\ Stands(raster_requested(called(called(Widget, "on_item_double_clicked"),
                                          "handle_raster_file"),
                                   raster_method(Widget, Rows[i]), again),
                  "handle_raster_file", <<Rows[i].name>>,
                  Transfer(raster_method(Widget, Rows[i]), Widget, valid, NoAnswer))

RasterEnds ==
    /\ transfers # <<>>
    /\ last(transfers).op \in {"load_craig_raster", "load_raster_file_with_download"}
    /\ Resumes(raster_loaded(Widget, last(transfers).op, last(transfers).valid),
               last(transfers).op)

\* upload_file_to_webdav, lines 3257-3333: one file chosen and confirmed, up
\* to processEvents() after the PUT
upload_sent(w, status) ==
    sent(label(called(w, "upload_file_to_webdav"), "Televersement de ..."),
         Request("PUT", "", {}, status))

\* the answers the PUT of an upload gets: the file is created, or refused
UploadAnswers == {"201", "404"}

\* show_context_menu off the rows: Televerser des fichiers
UploadStarts ==
    \E status \in UploadAnswers :
        /\ MayStart
        /\ ~NeedConnection(Widget)
        /\ Stands(upload_sent(called(Widget, "show_context_menu"), status),
                  "upload_file_to_webdav", <<status>>,
                  Transfer("upload_file_to_webdav", Widget, FALSE, status))

\* upload_file_to_webdav, lines 3335-3354: the listing, then the summary
UploadEnds ==
    \E answer \in StepAnswers(Widget) :
        /\ transfers # <<>>
        /\ last(transfers).op = "upload_file_to_webdav"
        /\ Resumes(upload_summary(refresh_current_location(Widget, answer),
                                  last(transfers).status),
                   "upload_file_to_webdav")

\* two profiles to choose between, and one for each of the two raster methods
StoredForTransfers == {<<In_plain, In_web>>, <<In_share>>, <<In_craig>>}

InitTransfer ==
    /\ \E inputs \in StoredForTransfers :
           \E store \in {saved_in_turn(EmptyStore, inputs)} :
               Constructed(store, first_loaded(store))
    /\ probe = NoProbe

NextTransfer ==
    \/ ConnectionChanged
    \/ SmartConnect
    \/ DownloadStarts
    \/ DownloadEnds
    \/ RasterStarts
    \/ RasterEnds
    \/ UploadStarts
    \/ UploadEnds

SpecTransfer == InitTransfer /\ [][NextTransfer]_vars


-----------------------------------------------------------------------------
(* Properties of the transfers (SpecTransfer) *)

\* the step ends the inmost transfer
C23_ends == Len(transfers') < Len(transfers)

\* C23: while a download or an upload is in progress no other user-triggered
\* handler runs: every step taken while a transfer is in progress is the end
\* of that transfer, the session, the selected connection and the current
\* path are then the ones the transfer started with, and no transfer starts
\* inside another
C23_NothingRunsInsideATransfer ==
    /\ [](Len(transfers) <= 1)
    /\ [][transfers # <<>> => C23_ends]_vars
    /\ [][C23_ends =>
            /\ session = last(transfers).session
            /\ current_connection = last(transfers).current_connection
            /\ current_path = last(transfers).current_path]_vars

=============================================================================
